---- MODULE Spec2Model ----
(***************************************************************************)
(* Lec-Recall backend: the Socket.IO session/quiz coordinator              *)
(* (lec-recall-backend/socket/socketHandlers.js), the session status       *)
(* endpoint of controllers/sessionController.js and the SQLite tables of   *)
(* database/schema.sql, as a state machine.                                *)
(*                                                                         *)
(* Every socket handler is split at the points where the code yields to    *)
(* the event loop (an await on the Gemini service, a sqlite3 callback, a   *)
(* setTimeout); everything a callback does synchronously is one action.    *)
(***************************************************************************)
EXTENDS Integers, Sequences, FiniteSets, Bags, TLC

\* ---------------------------------------------------------------- bounds
MaxRequests == 3      \* client requests served: create-session, transcript-chunk,
                      \* join-session, end-quiz-manually, quiz-timeout
MaxSockets  == 3      \* connected sockets
MaxTicks    == 3      \* clock steps
MaxQuizzes  == 2      \* quizzes already given when the reports are studied
TickMs      == 500    \* clock granularity (ms)

\* ---------------------------------------------------------------- inputs
Sockets         == 1..MaxSockets
JoinCodes       == {"AAAAAA", "BBBBBB", "CCCCCC"}   \* outcomes of Math.random().toString(36)...
TimeLimitInputs == {0, 1}                 \* data.timeLimit; 0 stands for a missing field
Labels          == {"A", "B"}             \* correct_answer values the enricher returns

DefaultTimeLimit == 10
DefaultTimerDuration == 300               \* questions.timer_duration DEFAULT, seconds
AdditionalTimeInputs == {1, 2}            \* data.additionalTime, seconds

NoRoom == "socket"        \* the room field of a message sent to one socket
NoPayload == [none |-> TRUE]   \* the payload of emit(type) without data

\* roles the client applications give the sockets: SessionCreator / lecturer view
\* (create-session, transcript-chunk, recording) and StudentJoin (join-session)
Presenter    == CHOOSE k \in Sockets : \A j \in Sockets : k <= j
Participants == Sockets \ {Presenter}

VARIABLES
  sessions,          \* sessions table: sequence of rows, id = position
  students,          \* students table: set of rows
  questions,         \* questions table: sequence of rows in insertion order
  activeQuizTimers,  \* the Map sessionId -> {questionId, startTime, timeLimit}, as its set of entries
  timers,            \* setTimeout callbacks that have not fired yet
  now,               \* Date.now()
  chunks,            \* transcript-chunk handler invocations: position and locals
  joins,             \* join-session handler invocations: position and locals
  rooms,             \* socket.io rooms: set of <<socket, sessionId>>
  student_answers,   \* student_answers table: bag of rows (the uuid key leaves equal rows apart)
  reports,           \* stop-session and GET analytics invocations: position and locals
  emitted            \* bag of messages the server has emitted (the notifications
                     \* student-joined and quiz-ended-confirm are not logged)

vars == <<sessions, students, questions, activeQuizTimers, timers, now,
          chunks, joins, rooms, student_answers, reports, emitted>>

\* ------------------------------------------------------------- helpers
Max(a, b) == IF a >= b THEN a ELSE b

\* Math.ceil(x / 1000) for an integer x
CeilDiv1000(x) == IF x >= 0 THEN (x + 999) \div 1000 ELSE -((-x) \div 1000)

SessionIds == 1..Len(sessions)

\* the place a deleted sessions row leaves (ids are positions): no column of it
\* matches a query any more
DeletedRow == [join_code |-> "", status |-> "", time_limit |-> 0, ended_at |-> -1]

\* the ids whose row is in the table
SessionRows == {s \in SessionIds : sessions[s] # DeletedRow}

\* Map.prototype.get / set / delete on the set of entries
MapHas(m, k)  == \E e \in m : e.key = k
MapGet(m, k)  == CHOOSE e \in m : e.key = k
MapSetMerging(m, k, v) == m \cup {[key |-> k, value |-> v]}
MapSet(m, k, v) == {e \in m : e.key # k} \cup {[key |-> k, value |-> v]}
MapDelete(m, k) == {e \in m : e.key # k}

\* members of a socket.io room
RoomMembers(s) == {k \in Sockets : <<k, s>> \in rooms}

Msg(type, room, to, payload) ==
  [type |-> type, room |-> room, to |-> to, payload |-> payload]

\* io.to(room).emit(type, payload)
IoToEmit(log, room, type, payload) ==
  log (+) SetToBag({Msg(type, room, RoomMembers(room), payload)})

\* socket.emit(type, payload)
SocketEmit(log, sock, type, payload) ==
  log (+) SetToBag({Msg(type, NoRoom, {sock}, payload)})

\* socket.to(room).emit(type, payload): the room without the sender
SocketToEmit(log, sock, room, type, payload) ==
  log (+) SetToBag({Msg(type, room, RoomMembers(room) \ {sock}, payload)})

\* res.status(code).json(body)
HttpRespond(log, route, status, body) ==
  log (+) SetToBag({Msg(route, "http", {}, [status |-> status, body |-> body])})

\* SELECT ... FROM questions WHERE id = ?
QuestionRows(qid) == {i \in 1..Len(questions) : questions[i].id = qid}
QuestionById(qid) == questions[CHOOSE i \in QuestionRows(qid) : TRUE]

\* ---------------------------------------------------------------- Init
Init ==
  /\ sessions = << >>
  /\ students = {}
  /\ questions = << >>
  /\ activeQuizTimers = {}
  /\ timers = {}
  /\ now = 0
  /\ chunks = << >>
  /\ joins = << >>
  /\ rooms = {}
  /\ student_answers = EmptyBag
  /\ reports = << >>
  /\ emitted = EmptyBag

\* ------------------------------------------------------- create-session
\* data.timeLimit || 10
EffectiveTimeLimit(t) == IF t = 0 THEN DefaultTimeLimit ELSE t

\* a sessions table without the UNIQUE constraint
JoinCodeNeverTaken(code) == FALSE

\* join_code TEXT UNIQUE NOT NULL
JoinCodeTaken(code) == \E s \in SessionIds : sessions[s].join_code = code

CreateSession(sock, code, tl) ==
  /\ LET timeLimit == EffectiveTimeLimit(tl)
         sessionId == Len(sessions) + 1
     IN IF JoinCodeTaken(code)
        THEN /\ emitted' = SocketEmit(emitted, sock, "session-creation-error",
                                      [error |-> "Failed to create session"])
             /\ UNCHANGED <<student_answers, reports, sessions, rooms>>
        ELSE /\ sessions' = Append(sessions,
                   [join_code |-> code, status |-> "waiting",
                    time_limit |-> timeLimit, ended_at |-> -1])
             /\ rooms' = rooms \cup {<<sock, sessionId>>}
             /\ emitted' = SocketEmit(emitted, sock, "session-created",
                   [sessionId |-> sessionId, joinCode |-> code, timeLimit |-> timeLimit])
  /\ UNCHANGED <<student_answers, reports, students, questions, activeQuizTimers, timers, now, chunks, joins>>

\* createSession of the session controller: the same INSERT, no room is joined
HttpCreateSession(code, tl) ==
  /\ LET timeLimit == EffectiveTimeLimit(tl)
         sessionId == Len(sessions) + 1
     IN IF JoinCodeTaken(code)
        THEN /\ emitted' = HttpRespond(emitted, "POST /sessions", 500,
                                       [error |-> "Failed to create session"])
             /\ UNCHANGED sessions
        ELSE /\ sessions' = Append(sessions,
                   [join_code |-> code, status |-> "waiting",
                    time_limit |-> timeLimit, ended_at |-> -1])
             /\ emitted' = HttpRespond(emitted, "POST /sessions", 200,
                   [sessionId |-> sessionId, joinCode |-> code,
                    timeLimit |-> timeLimit,
                    message |-> "Session created successfully"])
  /\ UNCHANGED <<student_answers, reports, students, questions, activeQuizTimers,
                 timers, now, chunks, joins, rooms>>

\* ------------------------------------------- start / stop recording, status
SetStatus(s, status, stamp) ==
  [sessions EXCEPT ![s].status = status,
                   ![s].ended_at = IF stamp THEN now \div 1000 ELSE @]

\* UPDATE sessions SET status = "active" WHERE id = ?, and the broadcast to
\* the rest of the room
StartRecording(sock, s) ==
  /\ s \in SessionIds
  /\ sessions' = SetStatus(s, "active", FALSE)
  /\ emitted' = SocketToEmit(emitted, sock, s, "recording-started", NoPayload)
  /\ UNCHANGED <<student_answers, reports, students, questions, activeQuizTimers, timers, now, chunks,
                 joins, rooms>>

\* UPDATE sessions SET status = "ended", ended_at = CURRENT_TIMESTAMP WHERE id = ?,
\* and the broadcast to the rest of the room
StopRecording(sock, s) ==
  /\ s \in SessionIds
  /\ sessions' = SetStatus(s, "ended", TRUE)
  /\ emitted' = SocketToEmit(emitted, sock, s, "recording-stopped", NoPayload)
  /\ UNCHANGED <<student_answers, reports, students, questions, activeQuizTimers, timers, now, chunks,
                 joins, rooms>>

StatusValues == {"waiting", "active", "ended", "archived"}

\* PUT /sessions/:sessionId/status
UpdateSessionStatus(s, status) ==
  /\ s \in SessionIds
  /\ status \in StatusValues
  /\ sessions' = SetStatus(s, status, status = "ended")
  /\ emitted' = HttpRespond(emitted, "PUT /sessions/status", 200,
                    [message |-> "Session status updated successfully",
                     sessionId |-> s, status |-> status])
  /\ UNCHANGED <<student_answers, reports, students, questions, activeQuizTimers, timers, now, chunks,
                 joins, rooms>>

\* ------------------------------------------------------ transcript-chunk
QuestionText == "What is the speed of light?"

Quiz(label) ==
  [optionA |-> "a", optionB |-> "b", optionC |-> "c", optionD |-> "d",
   correctAnswer |-> label]

DoneTask == [pc |-> "done"]

\* the handler up to its first await: the transcript row is queued, detectQuestion is called
TranscriptChunk(sock, s) ==
  /\ s \in SessionIds
  /\ chunks' = Append(chunks, [pc |-> "detect", sock |-> sock, sessionId |-> s])
  /\ UNCHANGED <<student_answers, reports, sessions, students, questions, activeQuizTimers, timers, now,
                 joins, rooms, emitted>>

\* detectQuestion resolves: {hasQuestion, question}
DetectDone(t, hasQuestion) ==
  /\ t \in 1..Len(chunks)
  /\ chunks[t].pc = "detect"
  /\ IF hasQuestion
     THEN /\ emitted' = SocketEmit(emitted, chunks[t].sock, "question-detected",
                                   [question |-> QuestionText])
          /\ chunks' = [chunks EXCEPT ![t].pc = "generate"]
     ELSE /\ emitted' = SocketEmit(emitted, chunks[t].sock, "transcript-received",
                                   [transcriptId |-> t])
          /\ chunks' = [chunks EXCEPT ![t] = DoneTask]
  /\ UNCHANGED <<student_answers, reports, sessions, students, questions, activeQuizTimers, timers, now,
                 joins, rooms>>

\* a generation failure reported to the presenter instead of acknowledged
GenerateFailedReported(t) ==
  /\ t \in 1..Len(chunks)
  /\ chunks[t].pc = "generate"
  /\ emitted' = SocketEmit(emitted, chunks[t].sock, "transcription-error",
                           [error |-> "Failed to generate quiz"])
  /\ chunks' = [chunks EXCEPT ![t] = DoneTask]
  /\ UNCHANGED <<student_answers, reports, sessions, students, questions, activeQuizTimers, timers, now,
                 joins, rooms>>

\* generateQuiz resolves with null: the handler falls through to the acknowledgment
GenerateFailed(t) ==
  /\ t \in 1..Len(chunks)
  /\ chunks[t].pc = "generate"
  /\ emitted' = SocketEmit(emitted, chunks[t].sock, "transcript-received",
                           [transcriptId |-> t])
  /\ chunks' = [chunks EXCEPT ![t] = DoneTask]
  /\ UNCHANGED <<student_answers, reports, sessions, students, questions, activeQuizTimers, timers, now,
                 joins, rooms>>

\* generateQuiz resolves with a quiz: the INSERT is queued with a fresh questionId
\* (the task number stands for the uuid), then the handler acknowledges the chunk
GenerateDone(t, label) ==
  /\ t \in 1..Len(chunks)
  /\ chunks[t].pc = "generate"
  /\ emitted' = SocketEmit(emitted, chunks[t].sock, "transcript-received",
                           [transcriptId |-> t])
  /\ chunks' = [chunks EXCEPT ![t] =
                  [pc |-> "insert", sessionId |-> chunks[t].sessionId,
                   questionId |-> t, quiz |-> Quiz(label)]]
  /\ UNCHANGED <<student_answers, reports, sessions, students, questions, activeQuizTimers, timers, now,
                 joins, rooms>>

\* INSERT INTO questions ... runs; its callback queues the time_limit lookup
InsertQuestionDone(t) ==
  /\ t \in 1..Len(chunks)
  /\ chunks[t].pc = "insert"
  /\ questions' = Append(questions,
        [id |-> chunks[t].questionId, session_id |-> chunks[t].sessionId,
         formatted_question |-> QuestionText,
         option_a |-> chunks[t].quiz.optionA, option_b |-> chunks[t].quiz.optionB,
         option_c |-> chunks[t].quiz.optionC, option_d |-> chunks[t].quiz.optionD,
         correct_answer |-> chunks[t].quiz.correctAnswer,
         timer_duration |-> DefaultTimerDuration])
  /\ chunks' = [chunks EXCEPT ![t].pc = "getLimit"]
  /\ UNCHANGED <<student_answers, reports, sessions, students, activeQuizTimers, timers, now, joins,
                 rooms, emitted>>

\* the payload of the new-quiz broadcast
NewQuizPayload(questionId, quiz, timeLimit, startTime) ==
  [questionId |-> questionId, question |-> QuestionText,
   options |-> [A |-> quiz.optionA, B |-> quiz.optionB,
                C |-> quiz.optionC, D |-> quiz.optionD],
   correctAnswer |-> quiz.correctAnswer,
   timeLimit |-> timeLimit, startTime |-> startTime]

\* session ? session.time_limit : 10
SessionTimeLimit(s) ==
  IF s \in SessionRows THEN sessions[s].time_limit ELSE DefaultTimeLimit

\* the callback scheduling the timeout without arming the registry
EmitQuizUnregistered(t) ==
  /\ t \in 1..Len(chunks)
  /\ chunks[t].pc = "getLimit"
  /\ LET sessionId  == chunks[t].sessionId
         questionId == chunks[t].questionId
         quiz       == chunks[t].quiz
         timeLimit  == SessionTimeLimit(sessionId)
     IN /\ emitted' = IoToEmit(emitted, sessionId, "new-quiz",
              NewQuizPayload(questionId, quiz, timeLimit, now))
        /\ timers' = timers \cup
              {[sessionId |-> sessionId, questionId |-> questionId,
                correctAnswer |-> quiz.correctAnswer,
                due |-> now + timeLimit * 1000]}
  /\ chunks' = [chunks EXCEPT ![t] = DoneTask]
  /\ UNCHANGED <<student_answers, reports, sessions, students, questions, activeQuizTimers,
                 now, joins, rooms>>

\* callback of SELECT time_limit: arm the registry, broadcast, schedule the timeout
EmitQuiz(t) ==
  /\ t \in 1..Len(chunks)
  /\ chunks[t].pc = "getLimit"
  /\ LET sessionId  == chunks[t].sessionId
         questionId == chunks[t].questionId
         quiz       == chunks[t].quiz
         timeLimit  == SessionTimeLimit(sessionId)
         startTime  == now
     IN /\ activeQuizTimers' = MapSet(activeQuizTimers, sessionId,
              [questionId |-> questionId, startTime |-> startTime,
               timeLimit |-> timeLimit * 1000])
        /\ emitted' = IoToEmit(emitted, sessionId, "new-quiz",
              NewQuizPayload(questionId, quiz, timeLimit, startTime))
        /\ timers' = timers \cup
              {[sessionId |-> sessionId, questionId |-> questionId,
                correctAnswer |-> quiz.correctAnswer,
                due |-> now + timeLimit * 1000]}
  /\ chunks' = [chunks EXCEPT ![t] = DoneTask]
  /\ UNCHANGED <<student_answers, reports, sessions, students, questions, now, joins, rooms>>

\* currentTimer && currentTimer.questionId === questionId
IsCurrent(m, sessionId, questionId) ==
  MapHas(m, sessionId) /\ MapGet(m, sessionId).value.questionId = questionId

\* the callback without its re-check of the registry
TimeoutFireUnchecked(tm) ==
  /\ tm \in timers
  /\ now >= tm.due
  /\ timers' = timers \ {tm}
  /\ emitted' = IoToEmit(emitted, tm.sessionId, "quiz-timeout",
                   [questionId |-> tm.questionId, correctAnswer |-> tm.correctAnswer])
  /\ UNCHANGED <<student_answers, reports, sessions, students, questions, activeQuizTimers, now, chunks,
                 joins, rooms>>

\* the setTimeout callback
TimeoutFire(tm) ==
  /\ tm \in timers
  /\ now >= tm.due
  /\ timers' = timers \ {tm}
  /\ emitted' = IF IsCurrent(activeQuizTimers, tm.sessionId, tm.questionId)
                THEN IoToEmit(emitted, tm.sessionId, "quiz-timeout",
                       [questionId |-> tm.questionId, correctAnswer |-> tm.correctAnswer])
                ELSE emitted
  /\ UNCHANGED <<student_answers, reports, sessions, students, questions, activeQuizTimers, now, chunks,
                 joins, rooms>>

\* ------------------------------------------------------ extend-quiz-time
\* the handler: the registry entry of the session, when it is for this quiz,
\* gets a longer timeLimit; the room and the sender are told
ExtendQuizTime(sock, sessionId, questionId, additionalTime) ==
  /\ IF IsCurrent(activeQuizTimers, sessionId, questionId)
     THEN LET currentTimer == MapGet(activeQuizTimers, sessionId).value
              newTimeLimit == currentTimer.timeLimit + additionalTime * 1000
          IN /\ activeQuizTimers' = MapSet(activeQuizTimers, sessionId,
                    [currentTimer EXCEPT !.timeLimit = newTimeLimit])
             /\ emitted' = SocketEmit(
                    IoToEmit(emitted, sessionId, "quiz-time-extended",
                       [questionId |-> questionId, additionalTime |-> additionalTime,
                        newTimeRemaining |->
                           CeilDiv1000(newTimeLimit - (now - currentTimer.startTime))]),
                    sock, "quiz-time-extended-confirm",
                    [questionId |-> questionId, additionalTime |-> additionalTime])
     ELSE /\ activeQuizTimers' = activeQuizTimers
          /\ emitted' = SocketEmit(emitted, sock, "quiz-time-extend-error",
                 [error |-> "No active quiz found for this question"])
  /\ UNCHANGED <<student_answers, reports, sessions, students, questions, timers, now, chunks,
                 joins, rooms>>

\* -------------------------------------------------- reveals by request
\* quiz-results broadcasts so far: one per end-quiz-manually or quiz-timeout request
RevealRequests ==
  BagCardinality(BagOfAll(LAMBDA m : m.type,
     [m \in {x \in BagToSet(emitted) : x.type = "quiz-results"} |-> emitted[m]]))

\* the quiz-results broadcast of end-quiz-manually
ManualResultsMsg(questionId, sessionId) ==
  Msg("quiz-results", sessionId, RoomMembers(sessionId),
      [questionId |-> questionId,
       correctAnswer |-> QuestionById(questionId).correct_answer,
       endedManually |-> TRUE])

\* end-quiz-manually: callback of SELECT correct_answer FROM questions WHERE id = ?
\* (for an id that names no row the callback throws on question.correct_answer;
\* requests are drawn from the stored questions)
EndQuizManually(questionId, sessionId) ==
  /\ QuestionRows(questionId) # {}
  /\ sessionId \in SessionIds
  /\ activeQuizTimers' = IF IsCurrent(activeQuizTimers, sessionId, questionId)
                         THEN MapDelete(activeQuizTimers, sessionId)
                         ELSE activeQuizTimers
  /\ emitted' = emitted (+) SetToBag({ManualResultsMsg(questionId, sessionId)})
  /\ UNCHANGED <<student_answers, reports, sessions, students, questions, timers, now, chunks, joins, rooms>>

\* the quiz-results broadcast of the quiz-timeout handler
ClientResultsMsg(questionId, sessionId) ==
  Msg("quiz-results", sessionId, RoomMembers(sessionId),
      [questionId |-> questionId,
       correctAnswer |-> QuestionById(questionId).correct_answer])

\* quiz-timeout sent by a client whose countdown reached zero
ClientQuizTimeout(questionId, sessionId) ==
  /\ QuestionRows(questionId) # {}
  /\ sessionId \in SessionIds
  /\ emitted' = emitted (+) SetToBag({ClientResultsMsg(questionId, sessionId)})
  /\ UNCHANGED <<student_answers, reports, sessions, students, questions, activeQuizTimers, timers, now,
                 chunks, joins, rooms>>

\* --------------------------------------------------------- join-session
Null == [null |-> TRUE]

\* the lookup without its status condition
JoinableSessionsAnyStatus(code) ==
  {s \in SessionIds : sessions[s].join_code = code}

\* SELECT id FROM sessions WHERE join_code = ? AND status != "ended"
JoinableSessions(code) ==
  {s \in SessionIds : sessions[s].join_code = code /\ sessions[s].status # "ended"}

\* the handler and its session lookup
JoinSession(sock, code) ==
  /\ IF JoinableSessions(code) = {}
     THEN /\ emitted' = SocketEmit(emitted, sock, "join-error",
                                   [error |-> "Invalid join code or session ended"])
          /\ joins' = Append(joins, [pc |-> "done", sock |-> sock, joinCode |-> code])
     ELSE /\ joins' = Append(joins,
                [pc |-> "insert", sock |-> sock, joinCode |-> code,
                 sessionId |-> CHOOSE s \in JoinableSessions(code) : TRUE])
          /\ emitted' = emitted
  /\ UNCHANGED <<student_answers, reports, sessions, students, questions, activeQuizTimers, timers, now,
                 chunks, rooms>>

\* the callback queueing the questions query without subscribing the socket
JoinInsertDoneUnsubscribed(j) ==
  /\ j \in 1..Len(joins)
  /\ joins[j].pc = "insert"
  /\ students' = students \cup {[id |-> j, session_id |-> joins[j].sessionId]}
  /\ joins' = [joins EXCEPT ![j].pc = "query"]
  /\ UNCHANGED <<student_answers, reports, sessions, questions, activeQuizTimers, timers,
                 now, chunks, emitted, rooms>>

\* INSERT INTO students runs; its callback subscribes the socket and queues the
\* questions query (the task number stands for the studentId uuid)
JoinInsertDone(j) ==
  /\ j \in 1..Len(joins)
  /\ joins[j].pc = "insert"
  /\ students' = students \cup {[id |-> j, session_id |-> joins[j].sessionId]}
  /\ rooms' = rooms \cup {<<joins[j].sock, joins[j].sessionId>>}
  /\ joins' = [joins EXCEPT ![j].pc = "query"]
  /\ UNCHANGED <<student_answers, reports, sessions, questions, activeQuizTimers, timers, now, chunks, emitted>>

\* SELECT ... FROM questions WHERE session_id = ? ORDER BY created_at ASC
\* (rows with equal created_at come back in insertion order)
SelectQuestions(s) == SelectSeq(questions, LAMBDA q : q.session_id = s)

\* the questions query runs against the table
JoinQueryDone(j) ==
  /\ j \in 1..Len(joins)
  /\ joins[j].pc = "query"
  /\ joins' = [joins EXCEPT ![j] =
                 [pc |-> "respond", sock |-> joins[j].sock,
                  sessionId |-> joins[j].sessionId,
                  rows |-> SelectQuestions(joins[j].sessionId)]]
  /\ UNCHANGED <<student_answers, reports, sessions, students, questions, activeQuizTimers, timers, now,
                 chunks, rooms, emitted>>

\* questions.map(q => ({...}))
FormatQuestion(q) ==
  [questionId |-> q.id, question |-> q.formatted_question,
   options |-> [A |-> q.option_a, B |-> q.option_b, C |-> q.option_c, D |-> q.option_d],
   correctAnswer |-> q.correct_answer,
   answered |-> FALSE, selectedAnswer |-> Null]

FormattedQuestions(rows) == [i \in 1..Len(rows) |-> FormatQuestion(rows[i])]

\* a countdown reset to the full duration
RemainingMsReset(timer, t) == timer.timeLimit

\* Math.max(0, timeLimit - (Date.now() - startTime)), in ms
RemainingMs(timer, t) == Max(0, timer.timeLimit - (t - timer.startTime))

\* currentTimerInfo of the join-session callback
CurrentTimerInfo(m, s, t) ==
  IF MapHas(m, s)
  THEN LET activeTimer == MapGet(m, s).value
       IN [questionId |-> activeTimer.questionId,
           timeRemaining |-> CeilDiv1000(RemainingMs(activeTimer, t)),
           startTime |-> activeTimer.startTime]
  ELSE Null

\* callback of the questions query: the late-join payload
JoinRespond(j) ==
  /\ j \in 1..Len(joins)
  /\ joins[j].pc = "respond"
  /\ emitted' = SocketEmit(emitted, joins[j].sock, "session-joined",
        [studentId |-> j, sessionId |-> joins[j].sessionId,
         previousQuestions |-> FormattedQuestions(joins[j].rows),
         currentTimer |-> CurrentTimerInfo(activeQuizTimers, joins[j].sessionId, now)])
  /\ joins' = [joins EXCEPT ![j] = DoneTask]
  /\ UNCHANGED <<student_answers, reports, sessions, students, questions, activeQuizTimers, timers, now,
                 chunks, rooms>>

\* ------------------------------------------------ POST /sessions/join
NoSocket == 0

\* joinSession of the session controller and its session lookup
HttpJoinSession(code) ==
  /\ IF JoinableSessions(code) = {}
     THEN /\ emitted' = HttpRespond(emitted, "POST /sessions/join", 404,
                                    [error |-> "Invalid join code or session ended"])
          /\ joins' = Append(joins, [pc |-> "done", sock |-> NoSocket, joinCode |-> code])
     ELSE /\ joins' = Append(joins,
                [pc |-> "httpInsert", sock |-> NoSocket, joinCode |-> code,
                 sessionId |-> CHOOSE s \in JoinableSessions(code) : TRUE])
          /\ emitted' = emitted
  /\ UNCHANGED <<student_answers, reports, sessions, students, questions,
                 activeQuizTimers, timers, now, chunks, rooms>>

\* INSERT INTO students runs; its callback answers the request
HttpJoinInsertDone(j) ==
  /\ j \in 1..Len(joins)
  /\ joins[j].pc = "httpInsert"
  /\ students' = students \cup {[id |-> j, session_id |-> joins[j].sessionId]}
  /\ emitted' = HttpRespond(emitted, "POST /sessions/join", 200,
                   [studentId |-> j, sessionId |-> joins[j].sessionId])
  /\ joins' = [joins EXCEPT ![j] = DoneTask]
  /\ UNCHANGED <<student_answers, reports, sessions, questions, activeQuizTimers,
                 timers, now, chunks, rooms>>

\* -------------------------------------------------------- submit-answer
\* INSERT INTO student_answers runs and its callback acknowledges the answer
\* (no foreign key is enforced: the row is written whatever the ids name)
SubmitAnswer(sock, questionId, studentId, answer) ==
  /\ student_answers' = student_answers (+)
        SetToBag({[question_id |-> questionId, student_id |-> studentId,
                   selected_answer |-> answer]})
  /\ emitted' = SocketEmit(emitted, sock, "answer-submitted",
                   [answerId |-> BagCardinality(student_answers) + 1])
  /\ UNCHANGED <<sessions, students, questions, activeQuizTimers, timers, now,
                 chunks, joins, rooms, reports>>

\* ------------------------------------------------- the analytics queries
\* a value of a column or field that may be NULL / null
Some(v) == [some |-> v]

\* x || 0
OrZero(v) == IF "some" \in DOMAIN v THEN v.some ELSE 0

\* Math.round(n / d) for n >= 0, d > 0
RoundDiv(n, d) == (2 * n + d) \div (2 * d)

\* a division by zero that yields NaN
SqlRateNaN(num, den) ==
  IF den = 0 THEN [nan |-> TRUE] ELSE Some(RoundDiv(num * 10000, den))

\* ROUND(CAST(num AS FLOAT) / den * 100, 2), in hundredths of a percent;
\* SQLite yields NULL for a division by zero
SqlRate(num, den) ==
  IF den = 0 THEN Null ELSE Some(RoundDiv(num * 10000, den))

\* 100 (percent), in hundredths
FullAccuracy == 10000

\* the distinct rows of student_answers
AnswerRows == BagToSet(student_answers)

\* COUNT(sa.id) over a selection of the answer rows
AnswerCount(rows) == BagCardinality([a \in rows |-> student_answers[a]])

\* the ids of a session's questions
SessionQuestionIds(s) ==
  {questions[i].id : i \in {k \in 1..Len(questions) : questions[k].session_id = s}}

SessionStudents(s) == {st \in students : st.session_id = s}

\* analyticsQuery: the session row joined with its questions, students and answers
AnalyticsRow(s) ==
  LET total_questions == Cardinality(SessionQuestionIds(s))
      total_students  == Cardinality(SessionStudents(s))
      total_answers   ==
         AnswerCount({a \in AnswerRows : a.question_id \in SessionQuestionIds(s)})
  IN [ended_at |-> sessions[s].ended_at,
      total_questions |-> total_questions,
      total_students |-> total_students,
      total_answers |-> total_answers,
      participation_rate |->
         SqlRate(total_answers, total_questions * total_students)]

\* one row of questionAnalyticsQuery
QuestionAnalyticsRow(q) ==
  LET total   == AnswerCount({a \in AnswerRows : a.question_id = q.id})
      correct == AnswerCount({a \in AnswerRows : a.question_id = q.id
                                        /\ a.selected_answer = q.correct_answer})
      count(l) == AnswerCount({a \in AnswerRows : a.question_id = q.id
                                         /\ a.selected_answer = l})
  IN [question_id |-> q.id, question |-> q.formatted_question,
      correct_answer |-> q.correct_answer,
      option_a |-> q.option_a, option_b |-> q.option_b,
      option_c |-> q.option_c, option_d |-> q.option_d,
      total_answers |-> total, correct_answers |-> correct,
      incorrect_answers |-> total - correct,
      accuracy_rate |-> SqlRate(correct, total),
      option_a_count |-> count("A"), option_b_count |-> count("B"),
      option_c_count |-> count("C"), option_d_count |-> count("D")]

\* questionAnalyticsQuery: ... GROUP BY q.id ORDER BY q.created_at ASC
\* (the quizzes of a session are taken to have distinct created_at)
QuestionAnalytics(s) ==
  LET rows == SelectQuestions(s)
  IN [i \in 1..Len(rows) |-> QuestionAnalyticsRow(rows[i])]

\* --------------------------------------------------------- stop-session
\* questionAnalytics.map(q => ({...}))
ProcessQuestion(q) ==
  [questionId |-> q.question_id, question |-> q.question,
   correctAnswer |-> q.correct_answer,
   options |-> [A |-> q.option_a, B |-> q.option_b, C |-> q.option_c, D |-> q.option_d],
   totalAnswers |-> q.total_answers, correctAnswers |-> q.correct_answers,
   incorrectAnswers |-> q.incorrect_answers,
   accuracyRate |-> OrZero(q.accuracy_rate),
   answerDistribution |-> [A |-> q.option_a_count, B |-> q.option_b_count,
                           C |-> q.option_c_count, D |-> q.option_d_count]]

ProcessedQuestions(rows) == [i \in 1..Len(rows) |-> ProcessQuestion(rows[i])]

\* the filter without the accuracy test
QuestionsWithAnswers(processed) ==
  SelectSeq(processed, LAMBDA q : q.totalAnswers > 0)

\* processedQuestions.filter(q => q.totalAnswers > 0 && q.accuracyRate < 100)
QuestionsWithErrors(processed) ==
  SelectSeq(processed, LAMBDA q : q.totalAnswers > 0 /\ q.accuracyRate < FullAccuracy)

\* list.sort((a, b) => a.accuracyRate - b.accuracyRate)[0]: the sort is stable
LowestAccuracyFirst(list) ==
  list[CHOOSE i \in 1..Len(list) :
         \A j \in 1..Len(list) :
            \/ list[j].accuracyRate > list[i].accuracyRate
            \/ list[j].accuracyRate = list[i].accuracyRate /\ j >= i]

MostProblematicQuestion(processed) ==
  IF Len(QuestionsWithErrors(processed)) > 0
  THEN LowestAccuracyFirst(QuestionsWithErrors(processed))
  ELSE Null

\* the summary of sessionAnalytics
SessionSummary(analytics) ==
  [totalQuestions |-> analytics.total_questions,
   totalStudents |-> analytics.total_students,
   totalAnswers |-> analytics.total_answers,
   participationRate |->
      IF analytics.total_students > 0 /\ analytics.total_questions > 0
      THEN RoundDiv(analytics.total_answers * 100,
                    analytics.total_questions * analytics.total_students)
      ELSE 0]

\* sessionAnalytics (the session's names and creation time never change and are left out)
SessionAnalytics(analytics, rows) ==
  [sessionInfo |-> [endedAt |-> analytics.ended_at],
   summary |-> SessionSummary(analytics),
   questionAnalytics |-> ProcessedQuestions(rows),
   mostProblematicQuestion |-> MostProblematicQuestion(ProcessedQuestions(rows))]

\* the handler and its session lookup (requests name an existing session)
StopSession(sock, s) ==
  /\ s \in SessionIds
  /\ reports' = Append(reports,
        [pc |-> "update", sock |-> sock, sessionId |-> s,
         wasEnded |-> sessions[s].status = "ended"])
  /\ UNCHANGED <<sessions, students, questions, activeQuizTimers, timers, now,
                 chunks, joins, rooms, student_answers, emitted>>

\* updateQuery runs: status and ended_at, or ended_at alone where it is NULL
StopUpdateDone(r) ==
  /\ r \in 1..Len(reports)
  /\ reports[r].pc = "update"
  /\ LET s == reports[r].sessionId
     IN sessions' = IF ~reports[r].wasEnded
                    THEN SetStatus(s, "ended", TRUE)
                    ELSE IF sessions[s].ended_at = -1
                         THEN SetStatus(s, sessions[s].status, TRUE)
                         ELSE sessions
  /\ reports' = [reports EXCEPT ![r].pc = "analytics"]
  /\ UNCHANGED <<students, questions, activeQuizTimers, timers, now, chunks,
                 joins, rooms, student_answers, emitted>>

\* analyticsQuery runs
StopAnalyticsDone(r) ==
  /\ r \in 1..Len(reports)
  /\ reports[r].pc = "analytics"
  /\ reports' = [reports EXCEPT ![r] =
        [pc |-> "questions", sock |-> reports[r].sock,
         sessionId |-> reports[r].sessionId,
         analytics |-> AnalyticsRow(reports[r].sessionId)]]
  /\ UNCHANGED <<sessions, students, questions, activeQuizTimers, timers, now,
                 chunks, joins, rooms, student_answers, emitted>>

\* questionAnalyticsQuery runs: the report goes to the lecturer, the students
\* query is queued and the room is told that the session has ended
StopReport(r) ==
  /\ r \in 1..Len(reports)
  /\ reports[r].pc = "questions"
  /\ LET s == reports[r].sessionId
         sessionAnalytics ==
            SessionAnalytics(reports[r].analytics, QuestionAnalytics(s))
     IN emitted' = SocketToEmit(
           SocketEmit(emitted, reports[r].sock, "session-stopped", sessionAnalytics),
           reports[r].sock, s, "session-ended",
           [message |-> "Session has ended. Thank you for participating!"])
  /\ reports' = [reports EXCEPT ![r] =
        [pc |-> "students", sock |-> reports[r].sock,
         sessionId |-> reports[r].sessionId]]
  /\ UNCHANGED <<sessions, students, questions, activeQuizTimers, timers, now,
                 chunks, joins, rooms, student_answers>>

\* studentsQuery runs; after the transcript query and the summary call one
\* studentAnalyticsQuery per student is queued
StopStudentsDone(r) ==
  /\ r \in 1..Len(reports)
  /\ reports[r].pc = "students"
  /\ LET pending == {st.id : st \in SessionStudents(reports[r].sessionId)}
     IN reports' = [reports EXCEPT ![r] =
           IF pending = {} THEN [pc |-> "done", sessionId |-> reports[r].sessionId]
           ELSE [pc |-> "personal",
                 sessionId |-> reports[r].sessionId, pending |-> pending]]
  /\ UNCHANGED <<sessions, students, questions, activeQuizTimers, timers, now,
                 chunks, joins, rooms, student_answers, emitted>>

RECURSIVE Flatten(_)
Flatten(ss) == IF ss = << >> THEN << >> ELSE Head(ss) \o Flatten(Tail(ss))

\* 'A', 'B', 'C', 'D' in order, as far as the answers go
LabelOrder == <<"A", "B">>

\* the rows studentAnalyticsQuery returns for one question: one per answer of
\* the student, or a single row of NULLs
StudentResultRows(q, studentId) ==
  LET row(l) == [questionId |-> q.id, question |-> q.formatted_question,
                 correctAnswer |-> q.correct_answer,
                 option_a |-> q.option_a, option_b |-> q.option_b,
                 option_c |-> q.option_c, option_d |-> q.option_d,
                 studentAnswer |-> Some(l),
                 isCorrect |-> IF l = q.correct_answer THEN 1 ELSE 0]
      copies(l) == CopiesIn([question_id |-> q.id, student_id |-> studentId,
                             selected_answer |-> l], student_answers)
      answered == Flatten([k \in 1..Len(LabelOrder) |->
                     [i \in 1..copies(LabelOrder[k]) |-> row(LabelOrder[k])]])
  IN IF answered = << >>
     THEN << [row("A") EXCEPT !.studentAnswer = Null, !.isCorrect = 0] >>
     ELSE answered

\* studentAnalyticsQuery: the session's questions LEFT JOINed with the student's answers
StudentResults(studentId, s) ==
  LET rows == SelectQuestions(s)
  IN Flatten([i \in 1..Len(rows) |-> StudentResultRows(rows[i], studentId)])

\* studentAnalytics (student.name is the student's id here; no lecture summary)
StudentAnalytics(studentId, studentResults) ==
  LET totalQuestions    == Len(studentResults)
      answeredQuestions == Len(SelectSeq(studentResults,
                                         LAMBDA x : x.studentAnswer # Null))
      correctAnswers    == Len(SelectSeq(studentResults, LAMBDA x : x.isCorrect = 1))
  IN [studentName |-> studentId,
      summary |-> [totalQuestions |-> totalQuestions,
                   answeredQuestions |-> answeredQuestions,
                   correctAnswers |-> correctAnswers,
                   accuracyRate |-> IF answeredQuestions > 0
                                    THEN RoundDiv(correctAnswers * 100, answeredQuestions)
                                    ELSE 0],
      questionResults |->
         [i \in 1..Len(studentResults) |->
            [questionId |-> studentResults[i].questionId,
             correctAnswer |-> studentResults[i].correctAnswer,
             studentAnswer |-> studentResults[i].studentAnswer,
             isCorrect |-> studentResults[i].isCorrect = 1]]]

\* a studentAnalyticsQuery runs: its result goes to every socket of the room
StopPersonal(r, studentId) ==
  /\ r \in 1..Len(reports)
  /\ reports[r].pc = "personal"
  /\ studentId \in reports[r].pending
  /\ LET s == reports[r].sessionId
         studentAnalytics == StudentAnalytics(studentId, StudentResults(studentId, s))
     IN emitted' = emitted (+) SetToBag(
           {Msg("session-ended-with-analytics", NoRoom, {k},
                [message |-> "Session has ended. Here are your results!",
                 analytics |-> studentAnalytics]) : k \in RoomMembers(s)})
  /\ reports' = [reports EXCEPT ![r] =
        IF reports[r].pending = {studentId}
        THEN [pc |-> "done", sessionId |-> reports[r].sessionId]
        ELSE [@ EXCEPT !.pending = @ \ {studentId}]]
  /\ UNCHANGED <<sessions, students, questions, activeQuizTimers, timers, now,
                 chunks, joins, rooms, student_answers>>

\* ----------------------------------------------- GET /analytics/:sessionId
\* the elements of a set of numbers in increasing order
Ascending(S) ==
  [k \in 1..Cardinality(S) |->
     CHOOSE x \in S : Cardinality({y \in S : y < x}) = k - 1]

\* one row of studentParticipationQuery
StudentParticipationRow(studentId) ==
  LET answered == AnswerCount({a \in AnswerRows : a.student_id = studentId})
      correct  == AnswerCount({a \in AnswerRows :
                     /\ a.student_id = studentId
                     /\ QuestionRows(a.question_id) # {}
                     /\ a.selected_answer = QuestionById(a.question_id).correct_answer})
  IN [studentId |-> studentId, questionsAnswered |-> answered,
      correctAnswers |-> correct, accuracyRate |-> SqlRate(correct, answered)]

\* studentParticipationQuery (ORDER BY st.name: the id stands for the name)
StudentParticipation(s) ==
  LET ids == Ascending({st.id : st \in SessionStudents(s)})
  IN [k \in 1..Len(ids) |-> StudentParticipationRow(ids[k])]

\* list.sort((a, b) => (100 - a.accuracy_rate) - (100 - b.accuracy_rate)): stable
ByMissRate(list) ==
  LET miss(i) == FullAccuracy - list[i].accuracy_rate.some
      before(j, i) == miss(j) < miss(i) \/ (miss(j) = miss(i) /\ j < i)
  IN [k \in 1..Len(list) |->
        list[CHOOSE i \in 1..Len(list) :
               Cardinality({j \in 1..Len(list) : before(j, i)}) = k - 1]]

\* questionAnalytics.filter(...).sort(...).slice(0, 3).map(...)
MostMissedQuestions(questionAnalytics) ==
  LET sorted == ByMissRate(SelectSeq(questionAnalytics,
                                     LAMBDA q : q.total_answers > 0))
      top    == SubSeq(sorted, 1, IF Len(sorted) < 3 THEN Len(sorted) ELSE 3)
  IN [k \in 1..Len(top) |->
        [question |-> top[k].question, accuracyRate |-> top[k].accuracy_rate,
         correctAnswer |-> top[k].correct_answer,
         totalAnswers |-> top[k].total_answers,
         correctAnswers |-> top[k].correct_answers]]

\* the response body of getAnalytics
AnalyticsResponse(analytics, questionAnalytics, studentParticipation) ==
  LET totalPossibleAnswers == analytics.total_questions * analytics.total_students
      mostMissedQuestions == MostMissedQuestions(questionAnalytics)
  IN [sessionInfo |-> [endedAt |-> analytics.ended_at],
      summary |->
         [totalQuestions |-> analytics.total_questions,
          totalStudents |-> analytics.total_students,
          totalAnswers |-> analytics.total_answers,
          participationRate |-> analytics.participation_rate,
          overallAccuracy |->
             IF totalPossibleAnswers > 0
             THEN RoundDiv(analytics.total_answers * 100, totalPossibleAnswers)
             ELSE 0],
      questionAnalytics |->
         [i \in 1..Len(questionAnalytics) |->
            [questionId |-> questionAnalytics[i].question_id,
             question |-> questionAnalytics[i].question,
             correctAnswer |-> questionAnalytics[i].correct_answer,
             totalAnswers |-> questionAnalytics[i].total_answers,
             correctAnswers |-> questionAnalytics[i].correct_answers,
             accuracyRate |-> questionAnalytics[i].accuracy_rate,
             answerDistribution |->
                [A |-> questionAnalytics[i].option_a_count,
                 B |-> questionAnalytics[i].option_b_count,
                 C |-> questionAnalytics[i].option_c_count,
                 D |-> questionAnalytics[i].option_d_count]]],
      studentParticipation |-> studentParticipation,
      recommendedReview |->
         [mostMissedQuestions |-> mostMissedQuestions,
          overallRecommendation |->
             IF Len(mostMissedQuestions) > 0
             THEN "Focus on reviewing concepts related to: ..."
             ELSE "All students performed well on the questions!"]]

\* the request and analyticsQuery (requests name an existing session)
GetAnalytics(s) ==
  /\ s \in SessionIds
  /\ reports' = Append(reports,
        [pc |-> "getQuestions", sessionId |-> s, analytics |-> AnalyticsRow(s)])
  /\ UNCHANGED <<sessions, students, questions, activeQuizTimers, timers, now,
                 chunks, joins, rooms, student_answers, emitted>>

\* questionAnalyticsQuery runs
GetAnalyticsQuestions(r) ==
  /\ r \in 1..Len(reports)
  /\ reports[r].pc = "getQuestions"
  /\ reports' = [reports EXCEPT ![r] =
        [pc |-> "getParticipation", sessionId |-> reports[r].sessionId,
         analytics |-> reports[r].analytics,
         questionAnalytics |-> QuestionAnalytics(reports[r].sessionId)]]
  /\ UNCHANGED <<sessions, students, questions, activeQuizTimers, timers, now,
                 chunks, joins, rooms, student_answers, emitted>>

\* studentParticipationQuery runs and the response is sent
GetAnalyticsRespond(r) ==
  /\ r \in 1..Len(reports)
  /\ reports[r].pc = "getParticipation"
  /\ emitted' = HttpRespond(emitted, "GET /analytics", 200,
        AnalyticsResponse(reports[r].analytics, reports[r].questionAnalytics,
                          StudentParticipation(reports[r].sessionId)))
  /\ reports' = [reports EXCEPT ![r] =
        [pc |-> "replied", sessionId |-> reports[r].sessionId]]
  /\ UNCHANGED <<sessions, students, questions, activeQuizTimers, timers, now,
                 chunks, joins, rooms, student_answers>>

\* ------------------------------ GET /analytics/:sessionId/student/:studentId
\* the answer rows of a student for a question
AnswersTo(studentId, questionId) ==
  {a \in AnswerRows : a.student_id = studentId /\ a.question_id = questionId}

\* the answer rows of a student whose question is not in the questions table
StrayAnswers(studentId) ==
  {a \in AnswerRows : a.student_id = studentId /\ QuestionRows(a.question_id) = {}}

\* the questions the student has an answer row for, ORDER BY q.created_at ASC
AnsweredQuestions(studentId) ==
  SelectSeq(questions, LAMBDA q : AnswersTo(studentId, q.id) # {})

\* the values a bare column of a GROUP BY row may take: one of the group's
\* rows gives it, which one is not determined
BareColumns(studentId) ==
  {pick \in [{questions[i].id : i \in 1..Len(questions)} -> Labels] :
     \A i \in 1..Len(AnsweredQuestions(studentId)) :
        LET q == AnsweredQuestions(studentId)[i]
        IN \E a \in AnswersTo(studentId, q.id) : a.selected_answer = pick[q.id]}

\* the row of the group (st.id, q.id) of the student's answers to one question
StudentGroupRow(studentId, q, selected) ==
  LET correct == {a \in AnswersTo(studentId, q.id) :
                    a.selected_answer = q.correct_answer}
  IN [studentName |-> studentId, total_questions |-> 1,
      questions_answered |-> AnswerCount(AnswersTo(studentId, q.id)),
      correct_answers |-> AnswerCount(correct),
      accuracy_rate |-> SqlRate(AnswerCount(correct),
                                AnswerCount(AnswersTo(studentId, q.id))),
      question |-> Some(q.formatted_question),
      correctAnswer |-> Some(q.correct_answer),
      selectedAnswer |-> Some(selected)]

\* the row of the group (st.id, NULL): the LEFT JOINs found no answer, or
\* answers without a question
StudentNullRow(studentId, selected) ==
  [studentName |-> studentId, total_questions |-> 0,
   questions_answered |-> AnswerCount(StrayAnswers(studentId)),
   correct_answers |-> 0,
   accuracy_rate |-> SqlRate(0, AnswerCount(StrayAnswers(studentId))),
   question |-> Null, correctAnswer |-> Null, selectedAnswer |-> selected]

\* the rows of the query of getStudentAnalytics, NULLs first
StudentGroupRows(s, studentId, pick, strayPick) ==
  LET answered == AnsweredQuestions(studentId)
      groups   == [i \in 1..Len(answered) |->
                     StudentGroupRow(studentId, answered[i], pick[answered[i].id])]
  IN IF \A st \in SessionStudents(s) : st.id # studentId THEN << >>
     ELSE IF StrayAnswers(studentId) # {}
          THEN <<StudentNullRow(studentId, Some(strayPick))>> \o groups
     ELSE IF answered = << >> THEN <<StudentNullRow(studentId, Null)>>
     ELSE groups

\* the response body of getStudentAnalytics (no review requested)
StudentAnalyticsResponse(results) ==
  LET detailedAnswers ==
         [i \in 1..Len(results) |->
            [question |-> results[i].question,
             correctAnswer |-> results[i].correctAnswer,
             selectedAnswer |-> results[i].selectedAnswer,
             isCorrect |-> results[i].selectedAnswer = results[i].correctAnswer]]
  IN [summary |->
         IF Len(results) > 0
         THEN [studentName |-> results[1].studentName,
               totalQuestions |-> results[1].total_questions,
               questionsAnswered |-> results[1].questions_answered,
               correctAnswers |-> results[1].correct_answers,
               accuracyRate |-> results[1].accuracy_rate]
         ELSE Null,
      detailedAnswers |-> detailedAnswers,
      missedQuestions |-> SelectSeq(detailedAnswers, LAMBDA a : ~a.isCorrect)]

\* the request, its query and the response
GetStudentAnalytics(s, studentId) ==
  /\ s \in SessionIds
  /\ \E pick \in BareColumns(studentId) :
     \E strayPick \in {a.selected_answer : a \in StrayAnswers(studentId)}
                      \cup {l \in Labels : StrayAnswers(studentId) = {}} :
        emitted' = HttpRespond(emitted, "GET /analytics/student", 200,
           StudentAnalyticsResponse(StudentGroupRows(s, studentId, pick, strayPick)))
  /\ reports' = Append(reports, [pc |-> "replied", sessionId |-> s])
  /\ UNCHANGED <<sessions, students, questions, activeQuizTimers, timers, now,
                 chunks, joins, rooms, student_answers>>

\* ------------------------------------------------------------- the clock
Tick ==
  /\ now + TickMs <= MaxTicks * TickMs
  /\ now' = now + TickMs
  /\ UNCHANGED <<student_answers, reports, sessions, students, questions, activeQuizTimers, timers,
                 chunks, joins, rooms, emitted>>

\* a join code no session row holds (the usual outcome of the random draw)
UnusedJoinCodes == {c \in JoinCodes : ~JoinCodeTaken(c)}
FreshJoinCode == CHOOSE c \in UnusedJoinCodes : TRUE

\* status changes so far: one message per start-recording, stop-recording or
\* PUT status request
StatusRequests ==
  BagCardinality(
     [m \in {x \in BagToSet(emitted) :
               x.type \in {"recording-started", "recording-stopped",
                           "PUT /sessions/status"}} |-> emitted[m]])

\* requests served so far
Requests ==
  Len(sessions) + Len(chunks) + Len(joins) + Len(reports) + RevealRequests
  + StatusRequests

CreateStep ==
  \E tl \in TimeLimitInputs :
     /\ Requests < MaxRequests
     /\ UnusedJoinCodes # {}
     /\ CreateSession(Presenter, FreshJoinCode, tl)

\* the transcript-chunk handler, from the request to the armed quiz
ChunkStep ==
  \/ \E s \in SessionIds : Requests < MaxRequests /\ TranscriptChunk(Presenter, s)
  \/ \E t \in 1..Len(chunks), h \in BOOLEAN : DetectDone(t, h)
  \/ \E t \in 1..Len(chunks) : GenerateFailed(t)
  \/ \E t \in 1..Len(chunks), l \in Labels : GenerateDone(t, l)
  \/ \E t \in 1..Len(chunks) : InsertQuestionDone(t)
  \/ \E t \in 1..Len(chunks) : EmitQuiz(t)

JoinStep ==
  \/ \E sock \in Participants, code \in JoinCodes :
        Requests < MaxRequests /\ JoinSession(sock, code)
  \/ \E j \in 1..Len(joins) : JoinInsertDone(j)
  \/ \E j \in 1..Len(joins) : JoinQueryDone(j)
  \/ \E j \in 1..Len(joins) : JoinRespond(j)

RevealStep ==
  \/ \E i \in 1..Len(questions), s \in SessionIds :
        Requests < MaxRequests /\ EndQuizManually(questions[i].id, s)
  \/ \E i \in 1..Len(questions), s \in SessionIds :
        Requests < MaxRequests /\ ClientQuizTimeout(questions[i].id, s)

TimerStep == \E tm \in timers : TimeoutFire(tm)

\* the coordinator: sessions, quiz emission, the registry and its timers,
\* reveals and late joiners
Next ==
  \/ CreateStep
  \/ ChunkStep
  \/ TimerStep
  \/ RevealStep
  \/ JoinStep
  \/ Tick

Spec == Init /\ [][Next]_vars

\* ------------------------------------------------------------- lifecycle
StatusStep ==
  \/ \E s \in SessionIds : Requests < MaxRequests /\ StartRecording(Presenter, s)
  \/ \E s \in SessionIds : Requests < MaxRequests /\ StopRecording(Presenter, s)
  \/ \E s \in SessionIds, st \in StatusValues :
        Requests < MaxRequests /\ UpdateSessionStatus(s, st)

\* the session status against quiz emission
NextLifecycle ==
  \/ CreateStep
  \/ StatusStep
  \/ ChunkStep

SpecLifecycle == Init /\ [][NextLifecycle]_vars

\* ------------------------------------------------------------ joining
HttpJoinStep ==
  \/ \E code \in JoinCodes : Requests < MaxRequests /\ HttpJoinSession(code)
  \/ \E j \in 1..Len(joins) : HttpJoinInsertDone(j)

\* join requests against the session status
NextJoin ==
  \/ CreateStep
  \/ StatusStep
  \/ JoinStep
  \/ HttpJoinStep

SpecJoin == Init /\ [][NextJoin]_vars

\* -------------------------------------------------------- ending a session
\* the stop-session handler after its session lookup
StopWork ==
  \/ \E r \in 1..Len(reports) : StopUpdateDone(r)
  \/ \E r \in 1..Len(reports) : StopAnalyticsDone(r)
  \/ \E r \in 1..Len(reports) : StopReport(r)
  \/ \E r \in 1..Len(reports) : StopStudentsDone(r)
  \/ \E r \in 1..Len(reports), st \in students : StopPersonal(r, st.id)

StopStep ==
  \/ \E s \in SessionIds : Requests < MaxRequests /\ StopSession(Presenter, s)
  \/ StopWork

\* the end of a session against its quizzes, their timers and its participants
NextEnd ==
  \/ CreateStep
  \/ ChunkStep
  \/ TimerStep
  \/ JoinStep
  \/ StopStep
  \/ Tick

SpecEnd == Init /\ [][NextEnd]_vars

\* ------------------------------------------------------ session creation
\* data.timeLimit as a client may send it: missing (0), 1, or a negative number
AnyTimeLimitInputs == TimeLimitInputs \cup {-1}

\* creations refused so far
CreationFailures ==
  BagCardinality(
     [m \in {x \in BagToSet(emitted) :
               \/ x.type = "session-creation-error"
               \/ x.type = "POST /sessions" /\ x.payload.status = 500}
        |-> emitted[m]])

\* requests served so far, the refused ones included
CreateRequests == Requests + CreationFailures

\* a creation whose random join code is any of the codes
CreateAnyStep ==
  \/ \E code \in JoinCodes, tl \in AnyTimeLimitInputs :
        CreateRequests < MaxRequests /\ CreateSession(Presenter, code, tl)
  \/ \E code \in JoinCodes, tl \in AnyTimeLimitInputs :
        CreateRequests < MaxRequests /\ HttpCreateSession(code, tl)

\* session creation against the status changes
NextCreate ==
  \/ CreateAnyStep
  \/ StatusStep

SpecCreate == Init /\ [][NextCreate]_vars

\* ------------------------------------------------------ extending a quiz
\* extend-quiz-time requests served so far: one reply to the sender each
ExtendRequests ==
  BagCardinality(
     [m \in {x \in BagToSet(emitted) :
               x.type \in {"quiz-time-extended-confirm", "quiz-time-extend-error"}}
        |-> emitted[m]])

ExtendStep ==
  \E s \in SessionIds, q \in 1..Len(chunks), a \in AdditionalTimeInputs :
     /\ Requests + ExtendRequests < MaxRequests
     /\ ExtendQuizTime(Presenter, s, q, a)

\* quizzes, their timeouts and time extensions
NextExtend ==
  \/ CreateStep
  \/ ChunkStep
  \/ ExtendStep
  \/ TimerStep
  \/ Tick

SpecExtend == Init /\ [][NextExtend]_vars

\* ------------------------------------------------ status against the clock
\* status changes of sessions while time passes
NextStamp ==
  \/ CreateStep
  \/ StatusStep
  \/ Tick

SpecStamp == Init /\ [][NextStamp]_vars

\* ------------------------------------------------------ deleteSession
\* DELETE /sessions/:sessionId: the answers, quizzes and participants of the
\* session and its row are deleted in one transaction
DeleteSession(s) ==
  /\ IF s \in SessionRows
     THEN LET gone == {questions[i].id :
                         i \in {k \in 1..Len(questions) : questions[k].session_id = s}}
          IN /\ student_answers' =
                   [a \in {x \in AnswerRows : x.question_id \notin gone}
                      |-> student_answers[a]]
             /\ questions' = SelectSeq(questions, LAMBDA q : q.session_id # s)
             /\ students' = {st \in students : st.session_id # s}
             /\ sessions' = [sessions EXCEPT ![s] = DeletedRow]
             /\ emitted' = HttpRespond(emitted, "DELETE /sessions", 200,
                   [message |-> "Session and all related data deleted successfully",
                    sessionId |-> s])
     ELSE /\ emitted' = HttpRespond(emitted, "DELETE /sessions", 404,
                   [error |-> "Session not found"])
          /\ UNCHANGED <<student_answers, questions, students, sessions>>
  /\ UNCHANGED <<reports, activeQuizTimers, timers, now, chunks, joins, rooms>>

\* DELETE requests served so far
DeleteRequests ==
  BagCardinality(
     [m \in {x \in BagToSet(emitted) : x.type = "DELETE /sessions"} |-> emitted[m]])

DeleteStep ==
  \E s \in SessionIds :
     Requests + DeleteRequests < MaxRequests /\ DeleteSession(s)

\* quizzes and their timeouts against the deletion of their session
NextDelete ==
  \/ CreateStep
  \/ ChunkStep
  \/ DeleteStep
  \/ TimerStep
  \/ Tick

SpecDelete == Init /\ [][NextDelete]_vars

\* ------------------------------------------------- join codes as typed
\* spellings of the first join code in other letter case
LowerCaseSpellings == {"aaaaaa", "Aaaaaa"}

\* joinCode values a request can carry
TypedJoinCodes == JoinCodes \cup LowerCaseSpellings

\* String.prototype.toUpperCase on the spellings above
ToUpperCase(str) == IF str \in LowerCaseSpellings THEN "AAAAAA" ELSE str

\* StudentJoin.joinSession of the client: the typed code is sent in upper case
StudentJoinSubmit(sock, typed) == JoinSession(sock, ToUpperCase(typed))

\* join requests from the StudentJoin form, from any socket client and over HTTP
NextTyped ==
  \/ CreateStep
  \/ \E sock \in Participants, typed \in TypedJoinCodes :
        Requests < MaxRequests /\ StudentJoinSubmit(sock, typed)
  \/ \E sock \in Participants, code \in TypedJoinCodes :
        Requests < MaxRequests /\ JoinSession(sock, code)
  \/ \E code \in TypedJoinCodes : Requests < MaxRequests /\ HttpJoinSession(code)
  \/ \E j \in 1..Len(joins) : JoinInsertDone(j)
  \/ \E j \in 1..Len(joins) : JoinQueryDone(j)
  \/ \E j \in 1..Len(joins) : JoinRespond(j)
  \/ \E j \in 1..Len(joins) : HttpJoinInsertDone(j)

SpecTyped == Init /\ [][NextTyped]_vars

\* ------------------------------------------------------ two sessions
\* data.timeLimit of a session with a short countdown
ShortTimeLimit == CHOOSE t \in TimeLimitInputs : t > 0

\* data.additionalTime of the smallest extension
ShortestExtension ==
  CHOOSE a \in AdditionalTimeInputs : \A b \in AdditionalTimeInputs : a <= b

\* two sessions created by the lecturer socket, nobody has joined yet
InitTwoSessions ==
  /\ sessions = << [join_code |-> "AAAAAA", status |-> "waiting",
                    time_limit |-> ShortTimeLimit, ended_at |-> -1],
                   [join_code |-> "BBBBBB", status |-> "waiting",
                    time_limit |-> ShortTimeLimit, ended_at |-> -1] >>
  /\ students = {}
  /\ questions = << >>
  /\ activeQuizTimers = {}
  /\ timers = {}
  /\ now = 0
  /\ chunks = << >>
  /\ joins = << >>
  /\ rooms = {<<Presenter, 1>>, <<Presenter, 2>>}
  /\ student_answers = EmptyBag
  /\ reports = << >>
  /\ emitted = SocketEmit(
                  SocketEmit(EmptyBag, Presenter, "session-created",
                     [sessionId |-> 1, joinCode |-> "AAAAAA",
                      timeLimit |-> ShortTimeLimit]),
                  Presenter, "session-created",
                  [sessionId |-> 2, joinCode |-> "BBBBBB",
                   timeLimit |-> ShortTimeLimit])

\* requests the two sessions have received
SessionRequests ==
  Len(chunks) + Len(joins) + RevealRequests + ExtendRequests

\* the handlers of both sessions side by side
NextTwoSessions ==
  \/ \E s \in SessionIds :
        SessionRequests < MaxRequests /\ TranscriptChunk(Presenter, s)
  \/ \E t \in 1..Len(chunks) : DetectDone(t, TRUE)
  \/ \E t \in 1..Len(chunks) : GenerateDone(t, LabelOrder[1])
  \/ \E t \in 1..Len(chunks) : InsertQuestionDone(t)
  \/ \E t \in 1..Len(chunks) : EmitQuiz(t)
  \/ \E sock \in Participants, code \in JoinCodes :
        SessionRequests < MaxRequests /\ JoinSession(sock, code)
  \/ \E j \in 1..Len(joins) : JoinInsertDone(j)
  \/ \E j \in 1..Len(joins) : JoinQueryDone(j)
  \/ \E j \in 1..Len(joins) : JoinRespond(j)
  \/ \E i \in 1..Len(questions), s \in SessionIds :
        SessionRequests < MaxRequests /\ EndQuizManually(questions[i].id, s)
  \/ \E s \in SessionIds, q \in 1..Len(chunks) :
        /\ SessionRequests < MaxRequests
        /\ ExtendQuizTime(Presenter, s, q, ShortestExtension)
  \/ TimerStep
  \/ Tick

SpecTwoSessions == InitTwoSessions /\ [][NextTwoSessions]_vars

\* ------------------------------------------- answering in two sessions
\* requests the two sessions have received, answers included
AnsweringRequests ==
  Len(chunks) + Len(joins) + BagCardinality(student_answers)

\* a joined participant answers under the studentId of its session-joined
\* message and the id of any stored quiz
AnyQuizAnswerStep ==
  \E m \in {x \in BagToSet(emitted) : x.type = "session-joined"},
     i \in 1..Len(questions), a \in Labels :
     /\ AnsweringRequests < MaxRequests
     /\ SubmitAnswer(CHOOSE k \in m.to : TRUE, questions[i].id,
                     m.payload.studentId, a)

\* quizzes, joins and answers of two sessions side by side
NextAnswering ==
  \/ \E s \in SessionIds :
        AnsweringRequests < MaxRequests /\ TranscriptChunk(Presenter, s)
  \/ \E t \in 1..Len(chunks) : DetectDone(t, TRUE)
  \/ \E t \in 1..Len(chunks) : GenerateDone(t, LabelOrder[1])
  \/ \E t \in 1..Len(chunks) : InsertQuestionDone(t)
  \/ \E t \in 1..Len(chunks) : EmitQuiz(t)
  \/ \E sock \in Participants, code \in JoinCodes :
        AnsweringRequests < MaxRequests /\ JoinSession(sock, code)
  \/ \E j \in 1..Len(joins) : JoinInsertDone(j)
  \/ \E j \in 1..Len(joins) : JoinQueryDone(j)
  \/ \E j \in 1..Len(joins) : JoinRespond(j)
  \/ AnyQuizAnswerStep

SpecAnswering == InitTwoSessions /\ [][NextAnswering]_vars

\* ------------------------------------------------------------- reports
\* the socket of the j-th participant of the class
ClassSocket(j) == Presenter + j

\* the quiz the enricher returned for the t-th fragment of the class
StoredQuiz(t) == Quiz(LabelOrder[(t % Len(LabelOrder)) + 1])

\* what the server has sent to a class of k participants who joined session 1
\* on its creation and then got n quizzes, each ended by the lecturer
StoreLog(k, n) ==
  LET members == {Presenter} \cup {ClassSocket(j) : j \in 1..k}
      once ==
         {Msg("session-created", NoRoom, {Presenter},
              [sessionId |-> 1, joinCode |-> "AAAAAA",
               timeLimit |-> DefaultTimeLimit])}
         \cup {Msg("session-joined", NoRoom, {ClassSocket(j)},
                   [studentId |-> j, sessionId |-> 1,
                    previousQuestions |-> << >>, currentTimer |-> Null]) : j \in 1..k}
         \cup {Msg("transcript-received", NoRoom, {Presenter},
                   [transcriptId |-> t]) : t \in 1..n}
         \cup {Msg("new-quiz", 1, members,
                   NewQuizPayload(t, StoredQuiz(t), DefaultTimeLimit, 0)) : t \in 1..n}
         \cup {Msg("quiz-results", 1, members,
                   [questionId |-> t, correctAnswer |-> StoredQuiz(t).correctAnswer,
                    endedManually |-> TRUE]) : t \in 1..n}
      detected == Msg("question-detected", NoRoom, {Presenter},
                      [question |-> QuestionText])
  IN SetToBag(once) (+) [m \in {x \in {detected} : n > 0} |-> n]

\* a class in progress: session 1 is active, k participants have joined, n
\* quizzes were given and ended by the lecturer, their timers have run out
InitStore ==
  \E k \in 0..Cardinality(Participants), n \in 0..MaxQuizzes :
     /\ sessions = << [join_code |-> "AAAAAA", status |-> "active",
                       time_limit |-> DefaultTimeLimit, ended_at |-> -1] >>
     /\ students = {[id |-> j, session_id |-> 1] : j \in 1..k}
     /\ questions = [t \in 1..n |->
           [id |-> t, session_id |-> 1, formatted_question |-> QuestionText,
            option_a |-> StoredQuiz(t).optionA, option_b |-> StoredQuiz(t).optionB,
            option_c |-> StoredQuiz(t).optionC, option_d |-> StoredQuiz(t).optionD,
            correct_answer |-> StoredQuiz(t).correctAnswer,
            timer_duration |-> DefaultTimerDuration]]
     /\ activeQuizTimers = {}
     /\ timers = {}
     /\ now = DefaultTimeLimit * 1000
     /\ chunks = [t \in 1..n |-> DoneTask]
     /\ joins = [j \in 1..k |-> DoneTask]
     /\ rooms = {<<Presenter, 1>>} \cup {<<ClassSocket(j), 1>> : j \in 1..k}
     /\ student_answers = EmptyBag
     /\ reports = << >>
     /\ emitted = StoreLog(k, n)

\* answers and report requests served so far
ReportRequests == BagCardinality(student_answers) + Len(reports)

\* every report asked for so far has been delivered
ReportsDelivered == \A r \in 1..Len(reports) : reports[r].pc \in {"done", "replied"}

\* a participant of the class answers a quiz of the session under the id it
\* joined with
AnswerStep ==
  \E j \in 1..Cardinality(students), i \in 1..Len(questions), a \in Labels :
     /\ ReportRequests < MaxRequests
     /\ SubmitAnswer(ClassSocket(j), questions[i].id, j, a)

\* a socket answers under a quiz id or a participant id that names no row
StrayAnswerStep ==
  \E j \in 1..Cardinality(students) + 1, i \in 1..Len(questions) + 1,
     k \in Participants, a \in Labels :
     /\ ReportRequests < MaxRequests
     /\ j > Cardinality(students) \/ i > Len(questions)
     /\ j <= Cardinality(students) => k = ClassSocket(j)
     /\ SubmitAnswer(k, i, j, a)

AnalyticsStep ==
  \/ \E s \in SessionIds :
        ReportRequests < MaxRequests /\ ReportsDelivered /\ GetAnalytics(s)
  \/ \E s \in SessionIds, st \in students :
        ReportRequests < MaxRequests /\ ReportsDelivered /\ GetStudentAnalytics(s, st.id)
  \/ \E r \in 1..Len(reports) : GetAnalyticsQuestions(r)
  \/ \E r \in 1..Len(reports) : GetAnalyticsRespond(r)

\* answers against the report pushed at the end and the report on demand,
\* one report at a time
NextReport ==
  \/ AnswerStep
  \/ StrayAnswerStep
  \/ \E s \in SessionIds :
        ReportRequests < MaxRequests /\ ReportsDelivered /\ StopSession(Presenter, s)
  \/ StopWork
  \/ AnalyticsStep

SpecReport == InitStore /\ [][NextReport]_vars

\* the reports over a store that is not written while a report is computed
NextTally ==
  \/ ReportsDelivered /\ AnswerStep
  \/ \E s \in SessionIds :
        ReportRequests < MaxRequests /\ ReportsDelivered /\ StopSession(Presenter, s)
  \/ StopWork
  \/ AnalyticsStep

SpecTally == InitStore /\ [][NextTally]_vars

\* =================================================================== claims
LogSet == BagToSet(emitted)

\* messages the step has just added to the log
Added(m) == CopiesIn(m, emitted') > CopiesIn(m, emitted)

\* the timers whose callback runs in the step
Fired == timers \ timers'

\* the timers the step schedules
Scheduled == timers' \ timers

\* the registry entries of a session
EntriesOf(m, s) == {e \in m : e.key = s}

\* ------------------------------------------------------------------- C1
OneEntryPerSession ==
  \A e1, e2 \in activeQuizTimers : e1.key = e2.key => e1 = e2

EmissionOverwrites ==
  \A tm \in Scheduled :
     \E e \in activeQuizTimers' :
        /\ EntriesOf(activeQuizTimers', tm.sessionId) = {e}
        /\ e.value.questionId = tm.questionId

\* C1: the registry never holds two entries for one session id, and when a quiz
\* emission completes the session's single entry references the quiz just
\* emitted, whatever entry the session had before.
C1_RegistrySingleEntry == []OneEntryPerSession /\ [][EmissionOverwrites]_vars

\* two quizzes were emitted for one session and its entry references one of them
C1_Witness ==
  \E m1, m2 \in LogSet :
     /\ m1.type = "new-quiz" /\ m2.type = "new-quiz"
     /\ m1.room = m2.room
     /\ m1.payload.questionId # m2.payload.questionId
     /\ \E e \in activeQuizTimers :
           e.key = m2.room /\ e.value.questionId = m2.payload.questionId

\* ------------------------------------------------------------------- C2
\* the session's entry references another quiz than the timer's
Superseded(tm) ==
  \E e \in activeQuizTimers :
     e.key = tm.sessionId /\ e.value.questionId # tm.questionId

\* C2: when the timeout callback of a quiz fires after the session's registry
\* entry has come to reference another quiz, the step emits nothing and leaves
\* the registry as it was.
C2_StaleTimeoutInert ==
  [][\A tm \in Fired :
        Superseded(tm) =>
           emitted' = emitted /\ activeQuizTimers' = activeQuizTimers]_vars

\* quiz A was broadcast, its callback has fired, the entry references another
\* quiz, and no quiz-timeout for A is in the log
C2_Witness ==
  \E m \in LogSet :
     /\ m.type = "new-quiz"
     /\ \A tm \in timers : tm.questionId # m.payload.questionId
     /\ \E e \in activeQuizTimers :
           e.key = m.room /\ e.value.questionId # m.payload.questionId
     /\ \A r \in LogSet :
           r.type = "quiz-timeout" => r.payload.questionId # m.payload.questionId

\* ------------------------------------------------------------------- C3
\* C3: when the timeout callback of a quiz fires while the session's entry still
\* references that quiz, the step broadcasts quiz-timeout with the quiz's correct
\* answer to the session and leaves the session without a registry entry.
C3_TimeoutRevealsAndClears ==
  [][\A tm \in Fired :
        (\E e \in activeQuizTimers :
            e.key = tm.sessionId /\ e.value.questionId = tm.questionId)
        => /\ \E m \in BagToSet(emitted') :
                 /\ Added(m)
                 /\ m.type = "quiz-timeout"
                 /\ m.room = tm.sessionId
                 /\ m.payload.questionId = tm.questionId
                 /\ m.payload.correctAnswer = tm.correctAnswer
           /\ EntriesOf(activeQuizTimers', tm.sessionId) = {}]_vars

\* ------------------------------------------------------------------- C4
\* the snapshot's seconds are the registry's remaining milliseconds, rounded up
SnapshotMatches(m, e) ==
  LET left == e.value.timeLimit - (now - e.value.startTime)
      rem  == IF left > 0 THEN left ELSE 0
      secs == m.payload.currentTimer.timeRemaining
  IN /\ e.key = m.payload.sessionId
     /\ e.value.questionId = m.payload.currentTimer.questionId
     /\ 1000 * secs >= rem
     /\ 1000 * (secs - 1) < rem
     /\ (now - e.value.startTime >= 1000) => 1000 * secs < e.value.timeLimit

C5_NewQuizHidesAnswer ==
  \A m \in LogSet :
     m.type = "new-quiz" =>
        /\ {"question", "options", "timeLimit", "startTime"} \subseteq DOMAIN m.payload
        /\ DOMAIN m.payload.options = {"A", "B", "C", "D"}
        /\ "correctAnswer" \notin DOMAIN m.payload

\* ------------------------------------------------------------------- C6
\* the ids of the session's quizzes, in creation order
QuizIdsOf(s) ==
  LET rows == SelectQuestions(s) IN [i \in 1..Len(rows) |-> rows[i].id]

\* C6: the previousQuestions of every session-joined payload are quizzes of the
\* session in creation order, none of them carrying the correct answer.
C6_LateJoinHidesAnswers ==
  \A m \in LogSet :
     m.type = "session-joined" =>
        LET prev == m.payload.previousQuestions
            ids  == QuizIdsOf(m.payload.sessionId)
        IN /\ Len(prev) <= Len(ids)
           /\ \A i \in 1..Len(prev) :
                 /\ prev[i].questionId = ids[i]
                 /\ "correctAnswer" \notin DOMAIN prev[i]

\* ------------------------------------------------------------------- C7
\* C7: end-quiz-manually reveals only the quiz its session's registry entry
\* references: whenever its quiz-results broadcast is sent, the entry of the
\* session it is sent to referenced the revealed quiz; a request for any other
\* quiz broadcasts nothing.
C7_ManualEndOnlyIfCurrent ==
  [][\A m \in BagToSet(emitted') :
        (Added(m) /\ m.type = "quiz-results" /\ "endedManually" \in DOMAIN m.payload)
        => \E e \in activeQuizTimers :
              e.key = m.room /\ e.value.questionId = m.payload.questionId]_vars

\* ------------------------------------------------------------------- C8
IsReveal(m) == m.type \in {"quiz-timeout", "quiz-results"}

\* reveal broadcasts in the log for a quiz, copies counted
RevealCount(q) ==
  BagCardinality([m \in {x \in LogSet : IsReveal(x) /\ x.payload.questionId = q}
                    |-> emitted[m]])

\* C8: no quiz is revealed by more than one broadcast.
C8_AtMostOneReveal ==
  \A i \in 1..Len(questions) : RevealCount(questions[i].id) <= 1

\* ------------------------------------------------------------------- C9
StatusRank(st) ==
  CASE st = "waiting" -> 0 [] st = "active" -> 1 [] st = "ended" -> 2 [] OTHER -> 3

\* C9: in every step a session's status stays one of waiting, active, ended and
\* does not move backwards along waiting -> active -> ended; in particular it
\* never leaves ended.
C9_StatusMonotone ==
  [][\A s \in SessionIds :
        /\ sessions'[s].status \in {"waiting", "active", "ended"}
        /\ StatusRank(sessions'[s].status) >= StatusRank(sessions[s].status)]_vars

\* ------------------------------------------------------------------ C10
\* C10: while a session is ended no step adds a quiz row for it, arms its
\* registry entry or broadcasts a new-quiz to it.
C10_NoQuizAfterEnd ==
  [][\A s \in SessionIds :
        sessions[s].status = "ended" =>
           /\ Len(SelectQuestions(s)') = Len(SelectQuestions(s))
           /\ EntriesOf(activeQuizTimers', s) \subseteq EntriesOf(activeQuizTimers, s)
           /\ \A m \in BagToSet(emitted') :
                 (m.type = "new-quiz" /\ m.room = s) => ~Added(m)]_vars
\* ------------------------------------------------------------------ C15
\* the tasks whose enricher call completes in the step
Enriched == {t \in 1..Len(chunks) :
               chunks[t].pc \in {"detect", "generate"} /\ chunks'[t] # chunks[t]}

\* the step acknowledges fragment t to its sender
Acknowledged(t) ==
  \E m \in BagToSet(emitted') :
     /\ Added(m)
     /\ m.type = "transcript-received"
     /\ m.payload.transcriptId = t

\* C15: a step in which an enricher call of a fragment completes writes no quiz
\* row, leaves the registry and the timers as they were, and sends only a
\* question-detected notice or the acknowledgment, to the fragment's sender
\* alone; when the call found no question or produced no quiz the fragment is
\* acknowledged in that step and every other fragment's handling is untouched.
C15_EnricherFailureSwallowed ==
  [][\A t \in Enriched :
        /\ "questionId" \notin DOMAIN chunks'[t] =>
              /\ questions' = questions
              /\ activeQuizTimers' = activeQuizTimers
              /\ timers' = timers
              /\ \A m \in BagToSet(emitted') :
                    Added(m) => /\ m.type \in {"question-detected", "transcript-received"}
                                /\ m.to = {chunks[t].sock}
        /\ chunks'[t] = DoneTask =>
              /\ Acknowledged(t)
              /\ \A u \in 1..Len(chunks) : u # t => chunks'[u] = chunks[u]
              /\ sessions' = sessions]_vars

\* a fragment ended without a quiz, was acknowledged, and a later fragment of
\* the same run was turned into a quiz
C15_Witness ==
  \E t, u \in 1..Len(chunks) :
     /\ t < u
     /\ chunks[t] = DoneTask
     /\ QuestionRows(t) = {}
     /\ \E m \in LogSet : m.type = "transcript-received" /\ m.payload.transcriptId = t
     /\ \E m \in LogSet : m.type = "new-quiz" /\ m.payload.questionId = u

\* ------------------------------------------------------------------ C16
\* C16: a fragment whose detection or generation call is still pending has
\* already been acknowledged with transcript-received.
C16_AckBeforeEnrichment ==
  \A t \in 1..Len(chunks) :
     chunks[t].pc \in {"detect", "generate"} =>
        \E m \in LogSet : m.type = "transcript-received" /\ m.payload.transcriptId = t
\* ------------------------------------------------------------------ C14
\* the sessions a join code names that have not ended
LiveMatches(code) ==
  {s \in SessionIds : sessions[s].join_code = code /\ sessions[s].status # "ended"}

\* the join request the step serves, if any
NewJoins == {j \in 1..Len(joins') : j > Len(joins)}

\* the step reports the failure to the requester
JoinRefused(j) ==
  \E m \in BagToSet(emitted') :
     /\ Added(m)
     /\ \/ m.type = "join-error" /\ m.to = {joins'[j].sock}
        \/ m.type = "POST /sessions/join" /\ m.payload.status = 404

\* the step runs the student insert of a request whose code named its session
AdmittedJoin ==
  \E j \in 1..Len(joins) :
     /\ joins[j].pc \in {"insert", "httpInsert"}
     /\ sessions[joins[j].sessionId].join_code = joins[j].joinCode
     /\ students' = students \cup {[id |-> j, session_id |-> joins[j].sessionId]}
     /\ rooms' \subseteq rooms \cup {<<joins[j].sock, joins[j].sessionId>>}

\* C14: a join request whose code names no session, or only ended sessions, is
\* answered with the not-found error in the step that looks the code up, and
\* that step leaves it no continuation, no student row and no subscription;
\* student rows and participants' subscriptions only ever come from the
\* continuation of a request whose code named a session that had not ended.
C14_JoinUnknownOrEndedFails ==
  [][/\ \A j \in NewJoins :
           LiveMatches(joins'[j].joinCode) = {} =>
              /\ joins'[j].pc = "done"
              /\ JoinRefused(j)
              /\ students' = students
              /\ rooms' = rooms
     /\ (students' # students \/ \E k \in Participants, s \in SessionIds :
                                     <<k, s>> \in rooms' \ rooms) => AdmittedJoin]_vars

\* a participant asked to join with the code of a session that has ended and
\* was refused: the session has no student and the participant is not in its room
C14_Witness ==
  \E j \in 1..Len(joins), s \in SessionIds :
     /\ joins[j].pc = "done" /\ "joinCode" \in DOMAIN joins[j]
     /\ joins[j].sock \in Participants
     /\ sessions[s].join_code = joins[j].joinCode
     /\ sessions[s].status = "ended"
     /\ \E m \in LogSet : m.type = "join-error" /\ m.to = {joins[j].sock}
     /\ \A st \in students : st.session_id # s
     /\ <<joins[j].sock, s>> \notin rooms
\* ------------------------------------------------------------------ C11
\* the stop-session calls that complete in the step
StopCompleted == {r \in 1..Len(reports) : reports[r].pc # "done" /\ reports'[r].pc = "done"}

\* stop-session has completed for the session
Stopped(s) == \E r \in 1..Len(reports) : reports[r].pc = "done" /\ reports[r].sessionId = s

\* the session was ended after the given instant (ms)
EndedAfter(s, t) == sessions[s].ended_at # -1 /\ t < sessions[s].ended_at * 1000

\* when the timer's quiz was armed
ArmedAt(tm) == tm.due - sessions[tm.sessionId].time_limit * 1000

\* C11: when stop-session completes for a session the registry holds no entry
\* that was armed for it before it ended, and a timeout callback of a quiz armed
\* before the end that fires after stop-session has completed broadcasts nothing.
C11_EndSessionClearsRegistry ==
  [][/\ \A r \in StopCompleted :
           \A e \in EntriesOf(activeQuizTimers', reports'[r].sessionId) :
              ~EndedAfter(e.key, e.value.startTime)'
     /\ \A tm \in Fired :
           (Stopped(tm.sessionId) /\ EndedAfter(tm.sessionId, ArmedAt(tm)))
           => emitted' = emitted]_vars
\* ------------------------------------------------------------------ C17
\* the session reports delivered so far: pushed on stop-session, and on demand
PushedReports == {m.payload : m \in {x \in LogSet : x.type = "session-stopped"}}
OnDemandReports == {m.payload.body : m \in {x \in LogSet : x.type = "GET /analytics"}}

\* the per-quiz entries of a report
QuizEntries(report) ==
  {report.questionAnalytics[i] : i \in 1..Len(report.questionAnalytics)}

\* C17: in every session report a quiz without answers has accuracyRate 0 (the
\* report pushed on stop-session) or null (the report on demand), never NaN.
C17_ZeroAnswerAccuracy ==
  /\ \A report \in PushedReports : \A q \in QuizEntries(report) :
        q.totalAnswers = 0 => q.accuracyRate = 0
  /\ \A report \in OnDemandReports : \A q \in QuizEntries(report) :
        q.totalAnswers = 0 => q.accuracyRate \in {Null, Some(0)}

\* both reports were delivered for a session with an answered quiz and a quiz
\* nobody answered
C17_Witness ==
  /\ \E report \in PushedReports :
        /\ \E q \in QuizEntries(report) : q.totalAnswers = 0
        /\ \E q \in QuizEntries(report) : q.totalAnswers > 0
  /\ \E report \in OnDemandReports :
        /\ \E q \in QuizEntries(report) : q.totalAnswers = 0
        /\ \E q \in QuizEntries(report) : q.totalAnswers > 0
\* ------------------------------------------------------------------ C12
\* how many times the socket was sent a message of the type
Deliveries(k, type) ==
  LET ms == {m \in LogSet : m.type = type /\ k \in m.to}
      RECURSIVE Sum(_)
      Sum(S) == IF S = {} THEN 0
                ELSE LET m == CHOOSE x \in S : TRUE
                     IN CopiesIn(m, emitted) + Sum(S \ {m})
  IN Sum(ms)

\* the answer counts a pushed report was computed from
AnswerCounts(report) ==
  <<report.summary.totalAnswers,
    [i \in 1..Len(report.questionAnalytics) |->
       report.questionAnalytics[i].answerDistribution]>>

\* the reports stop-session returned from the same answers are the same
SameReportBothTimes ==
  \A a, b \in PushedReports : AnswerCounts(a) = AnswerCounts(b) => a = b

\* no participant was sent session-ended more than once
NotifiedAtMostOnce ==
  \A k \in Participants : Deliveries(k, "session-ended") <= 1

\* C12: stop-session called twice on a session returns the same report both
\* times, and the participants are sent the session-ended notification at most
\* once.
C12_EndSessionIdempotent == SameReportBothTimes /\ NotifiedAtMostOnce
\* ------------------------------------------------------------------ C13
\* the personal reports delivered so far
PersonalReports == {m \in LogSet : m.type = "session-ended-with-analytics"}

\* the students the socket joined as
JoinedAs(k) ==
  {m.payload.studentId :
     m \in {x \in LogSet : x.type = "session-joined" /\ x.to = {k}}}

\* every answer the personal report shows is an answer its student gave
FromOwnAnswers(analytics) ==
  \A i \in 1..Len(analytics.questionResults) :
     LET res == analytics.questionResults[i]
     IN res.studentAnswer # Null =>
          BagIn([question_id |-> res.questionId,
                 student_id |-> analytics.studentName,
                 selected_answer |-> res.studentAnswer.some], student_answers)

\* C13: a personal report pushed on stop-session is computed from its student's
\* answers only and is delivered only to the socket that joined as that
\* student: to no other participant and not to the presenter.
C13_PersonalReportIsOwn ==
  \A m \in PersonalReports :
     /\ FromOwnAnswers(m.payload.analytics)
     /\ \A k \in m.to : m.payload.analytics.studentName \in JoinedAs(k)
\* ------------------------------------------------------------------ C18
\* which of the three outcomes the answers counted in a report amount to
Outcome(report) ==
  LET answered == {q \in QuizEntries(report) : q.totalAnswers > 0}
  IN IF answered = {} THEN "no data"
     ELSE IF \A q \in answered : q.correctAnswers = q.totalAnswers THEN "perfect"
     ELSE "selected"

\* a report without data and a report of a perfect performance, of the same kind
NoDataAndPerfect(reportSet) ==
  {pair \in reportSet \X reportSet :
     Outcome(pair[1]) = "no data" /\ Outcome(pair[2]) = "perfect"}

\* C18: a session report signals 'no data' when no quiz has an answer,
\* 'perfect performance' when every answered quiz is at 100%, and names a quiz
\* otherwise, and the first two signals differ from each other.
C18_ThreeOutcomes ==
  /\ \A pair \in NoDataAndPerfect(PushedReports) :
        pair[1].mostProblematicQuestion # pair[2].mostProblematicQuestion
  /\ \A pair \in NoDataAndPerfect(OnDemandReports) :
        pair[1].recommendedReview # pair[2].recommendedReview
  /\ \A report \in PushedReports :
        report.mostProblematicQuestion # Null <=> Outcome(report) = "selected"
  /\ \A report \in OnDemandReports :
        Len(report.recommendedReview.mostMissedQuestions) > 0
           <=> Outcome(report) = "selected"
\* ------------------------------------------------------------------ C19
\* the entry counts at least one answer and not only correct ones
Qualifies(q) == q.totalAnswers > 0 /\ q.correctAnswers < q.totalAnswers

\* entry a has a lower accuracy than entry b (both answered)
LowerAccuracy(a, b) ==
  a.correctAnswers * b.totalAnswers < b.correctAnswers * a.totalAnswers

\* the positions of the qualifying quizzes of a report, in creation order
QualifyingAt(report) ==
  {i \in 1..Len(report.questionAnalytics) : Qualifies(report.questionAnalytics[i])}

\* the earliest-created of the qualifying quizzes of lowest accuracy
LowestQualifying(report) ==
  LET e == report.questionAnalytics
  IN e[CHOOSE i \in QualifyingAt(report) :
         \A j \in QualifyingAt(report) :
            /\ ~LowerAccuracy(e[j], e[i])
            /\ (~LowerAccuracy(e[i], e[j])) => i <= j]

\* the pushed report names the lowest qualifying quiz, or none
PushedMostProblematic ==
  \A report \in PushedReports :
     IF QualifyingAt(report) = {}
     THEN report.mostProblematicQuestion = Null
     ELSE report.mostProblematicQuestion = LowestQualifying(report)

\* the on-demand report lists qualifying quizzes only, the lowest first
OnDemandMostMissed ==
  \A report \in OnDemandReports :
     LET missed == report.recommendedReview.mostMissedQuestions
     IN /\ \A k \in 1..Len(missed) : Qualifies(missed[k])
        /\ QualifyingAt(report) # {} =>
              /\ Len(missed) > 0
              /\ missed[1].accuracyRate = LowestQualifying(report).accuracyRate
              /\ missed[1].correctAnswer = LowestQualifying(report).correctAnswer

\* C19: when some quiz has an answer and an accuracy below 100%, the most
\* problematic question of a report is the quiz of lowest accuracy among the
\* answered quizzes below 100%, the earliest created on a tie; a quiz without
\* answers or at 100% is never selected.
C19_MostProblematicSelection == PushedMostProblematic /\ OnDemandMostMissed
\* ------------------------------------------------------------------ C20
\* rate is num / den in the given unit (100 for percent, 10000 for hundredths
\* of a percent), rounded to the nearest
IsRounded(rate, num, den, unit) ==
  LET diff == rate * den - unit * num
  IN 2 * (IF diff < 0 THEN -diff ELSE diff) <= den

\* the quizzes times the participants a report counts
Denominator(report) == report.summary.totalQuestions * report.summary.totalStudents

\* the pushed report gives the rate in percent
PushedParticipation ==
  \A report \in PushedReports :
     IF Denominator(report) = 0
     THEN report.summary.participationRate = 0
     ELSE IsRounded(report.summary.participationRate,
                    report.summary.totalAnswers, Denominator(report), 100)

\* the on-demand report gives the rate in percent with two decimals
OnDemandParticipation ==
  \A report \in OnDemandReports :
     IF Denominator(report) = 0
     THEN report.summary.participationRate = Some(0)
     ELSE /\ report.summary.participationRate # Null
          /\ IsRounded(report.summary.participationRate.some,
                       report.summary.totalAnswers, Denominator(report), FullAccuracy)

\* C20: the participation rate of a session report is
\* total answers / (total quizzes x total participants), and 0 when the session
\* has no quiz or no participant.
C20_ParticipationRate == PushedParticipation /\ OnDemandParticipation
\* ------------------------------------------------------------------ C21
\* the participant reports delivered on demand
OnDemandPersonalReports ==
  {m.payload.body : m \in {x \in LogSet : x.type = "GET /analytics/student"}}

\* the ids of the quizzes of the session the student joined, in creation order
QuizzesFor(studentId) ==
  LET st   == CHOOSE x \in students : x.id = studentId
      rows == SelectQuestions(st.session_id)
  IN [i \in 1..Len(rows) |-> rows[i].id]

\* how many entries of a sequence pass a test given as the set of passing entries
CountIn(seq, passing) == Cardinality({i \in 1..Len(seq) : seq[i] \in passing})

\* the report pushed to a participant: one result per quiz, classified from the
\* answer, accuracy in percent over the answered quizzes
PushedPersonalReport ==
  \A m \in PersonalReports :
     LET a        == m.payload.analytics
         res      == a.questionResults
         all      == {res[i] : i \in 1..Len(res)}
         answered == CountIn(res, {x \in all : x.studentAnswer # Null})
         correct  == CountIn(res, {x \in all : x.isCorrect})
     IN /\ [i \in 1..Len(res) |-> res[i].questionId] = QuizzesFor(a.studentName)
        /\ \A x \in all : x.isCorrect <=> x.studentAnswer = Some(x.correctAnswer)
        /\ IF answered = 0 THEN a.summary.accuracyRate = 0
           ELSE IsRounded(a.summary.accuracyRate, correct, answered, 100)

\* the report a participant gets on demand: the same, accuracy with two decimals
OnDemandPersonalReport ==
  \A report \in OnDemandPersonalReports :
     report.summary # Null =>
       LET res      == report.detailedAnswers
           all      == {res[i] : i \in 1..Len(res)}
           answered == CountIn(res, {x \in all : x.selectedAnswer # Null})
           correct  == CountIn(res, {x \in all : x.selectedAnswer # Null /\ x.isCorrect})
       IN /\ Len(res) = Len(QuizzesFor(report.summary.studentName))
          /\ \A x \in all :
                x.selectedAnswer # Null =>
                   (x.isCorrect <=> x.selectedAnswer = x.correctAnswer)
          /\ IF answered = 0 THEN report.summary.accuracyRate = Some(0)
             ELSE /\ report.summary.accuracyRate # Null
                  /\ IsRounded(report.summary.accuracyRate.some,
                               correct, answered, FullAccuracy)

\* C21: a participant report has exactly one result per quiz of the session,
\* classified as correct, incorrect or unanswered from the participant's answer,
\* and its accuracy is correct / answered over the answered quizzes, 0 when the
\* participant answered none.
C21_ParticipantReport == PushedPersonalReport /\ OnDemandPersonalReport
\* ------------------------------------------------------------------ C22
\* the (quiz, participant) pairs that have an answer
AnsweredPairs == {<<a.question_id, a.student_id>> : a \in AnswerRows}

\* the participants with an answer to the quiz, the quizzes a participant answered
AnsweredBy(questionId) == {pr \in AnsweredPairs : pr[1] = questionId}
AnsweredOf(studentId) == {pr \in AnsweredPairs : pr[2] = studentId}

\* C22: however often a participant submits an answer for a quiz, the pair
\* counts at most once in the quiz's total answers, in the session's total
\* answers and in the participant's answered count of every report.
C22_OneAnswerPerPair ==
  /\ \A report \in PushedReports :
        /\ report.summary.totalAnswers <= Cardinality(AnsweredPairs)
        /\ \A q \in QuizEntries(report) :
              q.totalAnswers <= Cardinality(AnsweredBy(q.questionId))
  /\ \A report \in OnDemandReports :
        /\ report.summary.totalAnswers <= Cardinality(AnsweredPairs)
        /\ \A q \in QuizEntries(report) :
              q.totalAnswers <= Cardinality(AnsweredBy(q.questionId))
  /\ \A m \in PersonalReports :
        m.payload.analytics.summary.answeredQuestions
           <= Cardinality(AnsweredOf(m.payload.analytics.studentName))
\* ------------------------------------------------------------------ C23
\* the class of the example: time limit 10, two participants, one quiz with
\* correct option B, participant 1 has answered B, participant 2 has not
ExampleClass ==
  /\ Len(sessions) = 1 /\ sessions[1].time_limit = 10
  /\ students = {[id |-> 1, session_id |-> 1], [id |-> 2, session_id |-> 1]}
  /\ Len(questions) = 1 /\ questions[1].correct_answer = "B"
  /\ student_answers =
        SetToBag({[question_id |-> questions[1].id, student_id |-> 1,
                   selected_answer |-> "B"]})

\* the session report of the example
ExampleReport(report) ==
  /\ report.summary = [totalQuestions |-> 1, totalStudents |-> 2,
                       totalAnswers |-> 1, participationRate |-> 50]
  /\ Len(report.questionAnalytics) = 1
  /\ report.questionAnalytics[1].accuracyRate = FullAccuracy
  /\ report.mostProblematicQuestion = Null

\* C23: stop-session for the example class returns the report totalQuestions 1,
\* totalStudents 2, totalAnswers 1, participationRate 50, the quiz at 100%
\* accuracy and no most problematic question.
C23_EndToEndReport ==
  [][\A r \in 1..Len(reports) :
       (ExampleClass /\ reports[r].pc = "questions" /\ reports'[r].pc = "students")
       => \E m \in BagToSet(emitted') :
             /\ Added(m) /\ m.type = "session-stopped"
             /\ ExampleReport(m.payload)]_vars

\* the report of the example class has been delivered
C23_Witness ==
  /\ ExampleClass
  /\ \E r \in 1..Len(reports) : reports[r].pc = "done"
  /\ \E report \in PushedReports : ExampleReport(report)
\* ------------------------------------------------------------------ C24
\* the answer rows written in the step
NewAnswers ==
  {a \in BagToSet(student_answers') :
     CopiesIn(a, student_answers') > CopiesIn(a, student_answers)}

\* the ids of the row name a quiz and a participant of the store
ReferencesStore(a) ==
  /\ QuestionRows(a.question_id) # {}
  /\ \E st \in students : st.id = a.student_id

\* C24: submit-answer with a quiz id or a participant id that is not in the
\* store writes no answer row and is not acknowledged with answer-submitted
\* (the caller gets answer-error).
C24_AnswerReferencesStore ==
  [][/\ \A a \in NewAnswers : ReferencesStore(a)
     /\ \A m \in BagToSet(emitted') :
           (Added(m) /\ m.type = "answer-submitted")
           => \E a \in NewAnswers : ReferencesStore(a)]_vars
\* ------------------------------------------------------------------ C25
\* the sessions that are waiting or active
LiveSessions == {s \in SessionIds : sessions[s].status \in {"waiting", "active"}}

\* C25: no two waiting or active sessions have the same join code, and a join
\* code resolves to at most one joinable session.
C25_JoinCodeUnique ==
  /\ \A s1, s2 \in LiveSessions :
        sessions[s1].join_code = sessions[s2].join_code => s1 = s2
  /\ \A code \in JoinCodes : Cardinality(JoinableSessions(code)) <= 1

\* two live sessions exist and a creation with a code in use was refused
C25_Witness ==
  /\ Cardinality(LiveSessions) >= 2
  /\ CreationFailures > 0
\* ------------------------------------------------------------------ C26
\* a creation is refused in the step
CreationRefused == CreationFailures' > CreationFailures

\* every stored session has ended
AllEnded == \A s \in SessionIds : sessions[s].status = "ended"

\* C26: a join code is refused only for a session that has not ended: when
\* every stored session has ended, a creation succeeds whatever code it draws.
C26_JoinCodeReuseAfterEnd ==
  [][AllEnded => ~CreationRefused]_vars
\* ------------------------------------------------------------------ C27
\* C27: create-session refuses a time limit outside the bound and stores no
\* session for it: whatever the bound, every stored session has a time limit
\* of at least one second.
C27_CreateValidates ==
  \A s \in SessionIds : sessions[s].time_limit >= 1

\* ------------------------------------------------------------------ C28
\* the sessions whose stop-recording handler runs in the step
RecordingStoppedIn ==
  {s \in SessionIds :
     \E m \in BagToSet(emitted') :
        m.type = "recording-stopped" /\ m.room = s /\ Added(m)}

\* C28: stop-recording ends the recording only: after it the session is not in
\* the ended status and its join code still finds it.
C28_StopRecordingKeepsSession ==
  [][\A s \in RecordingStoppedIn :
        /\ sessions'[s].status # "ended"
        /\ \E code \in JoinCodes :
              {t \in SessionIds : sessions'[t].join_code = code
                                    /\ sessions'[t].status # "ended"} = {s}]_vars

\* ------------------------------------------------------------------ C29
\* the registry after the step holds the quiz as the session's entry
Registered(sessionId, questionId) ==
  \E e \in activeQuizTimers' : e.key = sessionId /\ e.value.questionId = questionId

\* the new-quiz broadcasts of a quiz in a log
NewQuizIn(log, sessionId, questionId) ==
  {m \in BagToSet(log) : m.type = "new-quiz" /\ m.room = sessionId
                           /\ m.payload.questionId = questionId}

\* C29: the step that schedules a quiz's timeout callback has written the
\* quiz's registry entry and sent its new-quiz broadcast, no new-quiz is sent
\* without the entry, and a callback fires only for a quiz whose new-quiz has
\* been sent - so the registry has held the quiz's entry by then.
C29_RegistryBeforeTimeout ==
  [][/\ \A tm \in Scheduled :
           /\ Registered(tm.sessionId, tm.questionId)
           /\ \E m \in NewQuizIn(emitted', tm.sessionId, tm.questionId) : Added(m)
     /\ \A m \in BagToSet(emitted') :
           (m.type = "new-quiz" /\ Added(m)) => Registered(m.room, m.payload.questionId)
     /\ \A tm \in Fired :
           NewQuizIn(emitted, tm.sessionId, tm.questionId) # {}]_vars

\* a quiz was broadcast and its timeout callback has fired
C29_Witness ==
  \E m \in BagToSet(emitted) :
     /\ m.type = "new-quiz"
     /\ ~\E tm \in timers : tm.questionId = m.payload.questionId

\* ------------------------------------------------------------------ C30
\* the registry entries a step keeps for the same quiz, before and after
KeptEntries ==
  {<<e, f>> \in activeQuizTimers \X activeQuizTimers' :
      e.key = f.key /\ e.value.questionId = f.value.questionId}

\* C30: a quiz's duration is frozen at creation: the quiz record holds the
\* session's time limit, and no step changes the duration of a registry entry
\* it keeps.
C30_TimeLimitFrozen ==
  [][/\ \A i \in 1..Len(questions') :
           questions'[i].timer_duration = sessions'[questions'[i].session_id].time_limit
     /\ \A p \in KeptEntries : p[2].value.timeLimit = p[1].value.timeLimit]_vars

\* ------------------------------------------------------------------ C31
\* the session a stored quiz belongs to, after the step
SessionOfQuiz(questionId) ==
  {questions'[i].session_id : i \in {k \in 1..Len(questions') : questions'[k].id = questionId}}

\* the broadcasts about a quiz that the step sends to a room with participants
QuizBroadcastsSent ==
  {m \in BagToSet(emitted') :
     /\ m.type \in {"new-quiz", "quiz-timeout", "quiz-results", "quiz-time-extended"}
     /\ Added(m)
     /\ m.to \cap Participants # {}}

\* C31: sessions are independent: a step writes a registry entry only under
\* the session of the entry's quiz, and a broadcast about a quiz reaches only
\* the participants of the quiz's session.
C31_SessionsIndependent ==
  [][/\ \A e \in activeQuizTimers' \ activeQuizTimers :
           SessionOfQuiz(e.value.questionId) = {e.key}
     /\ \A m \in QuizBroadcastsSent :
           SessionOfQuiz(m.payload.questionId) = {m.room}]_vars

\* ------------------------------------------------------------------ C32
\* the quizzes whose result has been broadcast
Revealed ==
  {m.payload.questionId : m \in {x \in LogSet : x.type = "quiz-results"}}

\* C32: answers given after a quiz's reveal are stored but not counted: every
\* quiz of the class was revealed before the first answer came in, so each
\* revealed quiz has no counted answer in any session report.
C32_LateAnswersNotCounted ==
  \A report \in PushedReports \cup OnDemandReports :
     \A q \in QuizEntries(report) :
        q.questionId \in Revealed => q.totalAnswers = 0

\* ------------------------------------------------------------------ C33
\* the join requests the step receives
JoinsReceived == {j \in 1..Len(joins') : j > Len(joins)}

\* the non-ended sessions whose join code is the code but for letter case
SameCodeIgnoringCase(code) ==
  {s \in SessionIds : /\ sessions[s].status # "ended"
                       /\ ToUpperCase(sessions[s].join_code) = ToUpperCase(code)}

\* C33: the join lookup ignores letter case: a join request whose code is the
\* join code of a non-ended session but for letter case finds that session.
C33_JoinCodeCaseInsensitive ==
  [][\A j \in JoinsReceived :
        SameCodeIgnoringCase(joins'[j].joinCode) # {}
           => /\ joins'[j].pc # "done"
              /\ joins'[j].sessionId \in SameCodeIgnoringCase(joins'[j].joinCode)]_vars

\* ------------------------------------------------------------------ C34
\* the quiz-timeout broadcasts the step sends
TimeoutsBroadcast ==
  {m \in BagToSet(emitted') : m.type = "quiz-timeout" /\ Added(m)}

\* C34: when quiz-timeout is broadcast for a quiz, the time remaining that the
\* registry entry of the quiz gives (to late joiners and to get-quiz-status)
\* is 0, also after the quiz's time was extended.
C34_TimeoutOnlyAtZero ==
  [][\A m \in TimeoutsBroadcast :
        IsCurrent(activeQuizTimers', m.room, m.payload.questionId)
           => RemainingMs(MapGet(activeQuizTimers', m.room).value, now') = 0]_vars

\* ------------------------------------------------------------------ C35
\* the quizzes in the previousQuestions snapshots taken for the socket so far:
\* those of its answered joins and of the join whose answer is being built
SnapshotQuizzes(k) ==
  UNION {{m.payload.previousQuestions[i].questionId :
             i \in 1..Len(m.payload.previousQuestions)} :
         m \in {x \in LogSet : x.type = "session-joined" /\ k \in x.to}}
  \cup UNION {{joins[j].rows[i].id : i \in 1..Len(joins[j].rows)} :
              j \in {x \in 1..Len(joins) :
                       joins[x].pc = "respond" /\ joins[x].sock = k}}

\* the new-quiz broadcasts the step sends
NewQuizBroadcast ==
  {m \in BagToSet(emitted') : m.type = "new-quiz" /\ Added(m)}

\* C35: a late joiner does not get a quiz twice: a quiz in a previousQuestions
\* snapshot of a socket is not broadcast to that socket as new-quiz afterwards.
C35_NoQuizTwice ==
  [][\A m \in NewQuizBroadcast : \A k \in m.to :
        m.payload.questionId \notin SnapshotQuizzes(k)]_vars

\* ------------------------------------------------------------------ C36
\* the previousQuestions snapshots taken so far, each with its socket and
\* session: those sent in session-joined and those whose answer is being built
Snapshots ==
  {[sock |-> CHOOSE k \in m.to : TRUE, sessionId |-> m.payload.sessionId,
    quizzes |-> {m.payload.previousQuestions[i].questionId :
                    i \in 1..Len(m.payload.previousQuestions)}] :
      m \in {x \in LogSet : x.type = "session-joined"}}
  \cup {[sock |-> joins[j].sock, sessionId |-> joins[j].sessionId,
         quizzes |-> {joins[j].rows[i].id : i \in 1..Len(joins[j].rows)}] :
          j \in {x \in 1..Len(joins) : joins[x].pc = "respond"}}

\* the quiz was broadcast as new-quiz to the socket
BroadcastTo(k, questionId) ==
  \E m \in LogSet : /\ m.type = "new-quiz"
                     /\ m.payload.questionId = questionId
                     /\ k \in m.to

\* the quiz is persisted and its broadcast is still to come
EmissionPending(questionId) ==
  \E t \in 1..Len(chunks) :
     chunks[t].pc = "getLimit" /\ chunks[t].questionId = questionId

\* C36: a late joiner misses no quiz: every quiz persisted for the session is
\* in the joiner's previousQuestions snapshot or is broadcast as new-quiz to
\* the joiner's socket (at the latest when its pending emission completes).
C36_NoQuizMissed ==
  \A snap \in Snapshots : \A i \in 1..Len(questions) :
     questions[i].session_id = snap.sessionId
        => \/ questions[i].id \in snap.quizzes
           \/ BroadcastTo(snap.sock, questions[i].id)
           \/ EmissionPending(questions[i].id)

\* a joiner whose snapshot lacks a quiz of the session got the quiz by broadcast
C36_Witness ==
  \E snap \in Snapshots : \E i \in 1..Len(questions) :
     /\ questions[i].session_id = snap.sessionId
     /\ questions[i].id \notin snap.quizzes
     /\ BroadcastTo(snap.sock, questions[i].id)

\* ------------------------------------------------------------------ C37
\* C37: in every session-joined payload with a running countdown, the quiz of
\* currentTimer is one of the quizzes listed in previousQuestions.
C37_CurrentTimerInSnapshot ==
  \A m \in {x \in LogSet : x.type = "session-joined"} :
     "questionId" \in DOMAIN m.payload.currentTimer
        => \E i \in 1..Len(m.payload.previousQuestions) :
              m.payload.previousQuestions[i].questionId
                 = m.payload.currentTimer.questionId

\* ------------------------------------------------------------------ C38
\* C38: every registry entry references a stored quiz of the session the
\* entry is keyed by, also after a session was deleted.
C38_RegistryReferencesStore ==
  \A e \in activeQuizTimers :
     /\ e.key \in SessionRows
     /\ \E i \in 1..Len(questions) :
           questions[i].id = e.value.questionId /\ questions[i].session_id = e.key

\* ------------------------------------------------------------------ C39
\* the sessions of the quiz and of the participant an answer row names
QuizSessions(a) ==
  {questions[i].session_id : i \in {k \in 1..Len(questions) : questions[k].id = a.question_id}}

ParticipantSessions(a) ==
  {st.session_id : st \in {x \in students : x.id = a.student_id}}

\* C39: every stored answer joins a quiz and a participant of one session.
C39_AnswerWithinSession ==
  \A a \in AnswerRows :
     /\ QuizSessions(a) # {}
     /\ QuizSessions(a) = ParticipantSessions(a)

\* ------------------------------------------------------------------ C40
\* C40: the end time of a session is stamped once: when ended_at is set, no
\* step changes it.
C40_EndedAtStampedOnce ==
  [][\A s \in SessionIds :
        sessions[s].ended_at # -1 => sessions'[s].ended_at = sessions[s].ended_at]_vars
====
